---- MODULE Spec2Model ----
(***************************************************************************)
(* Speech-synchronisation engine of EchoLecture: the chunker (chunkText,   *)
(* splitLongSentence), the useSpeechSynthesis hook (speak, pause, resume,  *)
(* stop, playQueue and the utterance event handlers) and the Web Speech    *)
(* backend it drives.  Texts are sequences of one-character strings.       *)
(***************************************************************************)
EXTENDS Integers, Sequences, FiniteSets, TLC

(***************************************************************************)
(* Text helpers (JavaScript string operations used by the source)          *)
(***************************************************************************)

\* the characters /\s/ matches, within the alphabet of the model
WhiteSpace == {" ", "\n"}

\* the characters of the class [.!?] of sentenceRegex
Terminators == {".", "!", "?"}

Max(a, b) == IF a >= b THEN a ELSE b

Min(a, b) == IF a <= b THEN a ELSE b

\* String.prototype.slice(from) / slice(from, to) with 0-based indices
Slice(s, from, to) == SubSeq(s, from + 1, Min(to, Len(s)))

SliceFrom(s, from) == SubSeq(s, from + 1, Len(s))

\* length of the longest prefix of s whose characters are all in class
SpanIn(s, class) ==
  LET stops == {i \in 1..Len(s) : s[i] \notin class}
  IN IF stops = {} THEN Len(s)
     ELSE (CHOOSE i \in stops : \A j \in stops : i <= j) - 1

\* length of the longest prefix of s whose characters are all outside class
SpanNotIn(s, class) ==
  LET stops == {i \in 1..Len(s) : s[i] \in class}
  IN IF stops = {} THEN Len(s)
     ELSE (CHOOSE i \in stops : \A j \in stops : i <= j) - 1

\* number of leading whitespace characters of s
LeadingWs(s) == SpanIn(s, WhiteSpace)

\* number of trailing whitespace characters of s
TrailingWs(s) ==
  LET stops == {i \in 1..Len(s) : s[Len(s) + 1 - i] \notin WhiteSpace}
  IN IF stops = {} THEN Len(s)
     ELSE (CHOOSE i \in stops : \A j \in stops : i <= j) - 1

\* String.prototype.trim()
Trim(s) ==
  IF LeadingWs(s) = Len(s) THEN <<>>
  ELSE SubSeq(s, LeadingWs(s) + 1, Len(s) - TrailingWs(s))

\* text.replace(/\s+/g, " ") on s, where prevWs tells whether the character
\* before s is whitespace (its run has then been replaced already); the text
\* is processed by halves
RECURSIVE CollapseFrom(_, _)
CollapseFrom(s, prevWs) ==
  IF s = <<>> THEN <<>>
  ELSE IF Len(s) = 1
       THEN IF s[1] \in WhiteSpace
            THEN (IF prevWs THEN <<>> ELSE <<" ">>)
            ELSE s
       ELSE LET h == Len(s) \div 2
            IN CollapseFrom(SubSeq(s, 1, h), prevWs)
               \o CollapseFrom(SubSeq(s, h + 1, Len(s)), s[h] \in WhiteSpace)

\* text.replace(/\s+/g, " "): every run of whitespace becomes one space
CollapseWs(s) == CollapseFrom(s, FALSE)

\* text.replace(/\s+/g, " ").trim()
Normalize(text) == Trim(CollapseWs(text))

\* the text has no character other than whitespace
WhitespaceOnly(text) == \A i \in 1..Len(text) : text[i] \in WhiteSpace

\* !text.trim()
IsBlankMut(text) == text = <<>>

IsBlank(text) == Trim(text) = <<>>

\* s.split(" ") for a single separator: the pieces between separators, empty
\* pieces kept; the text is processed by halves and the piece that spans the
\* cut is glued together
RECURSIVE SplitOne(_)
SplitOne(s) ==
  IF s = <<>> THEN << <<>> >>
  ELSE IF Len(s) = 1
       THEN IF s[1] \in WhiteSpace THEN << <<>>, <<>> >> ELSE << s >>
       ELSE LET h == Len(s) \div 2
                l == SplitOne(SubSeq(s, 1, h))
                r == SplitOne(SubSeq(s, h + 1, Len(s)))
            IN SubSeq(l, 1, Len(l) - 1) \o << l[Len(l)] \o r[1] >> \o Tail(r)

\* sentence.split(/\s+/): the pieces between whitespace runs, empty pieces
\* (before a leading run, after a trailing run) kept
SplitWs(s) == SplitOne(CollapseWs(s))

(***************************************************************************)
(* Chunker                                                                 *)
(***************************************************************************)

MAX_CHUNK_LENGTH == 220

\* the loop of splitLongSentence over the words still to place;
\* current/currentStart/cursor are the loop's local variables
RECURSIVE SplitLoop(_, _, _, _, _)
SplitLoop(words, startOffset, current, currentStart, cursor) ==
  IF words = <<>>
  THEN IF current # <<>> THEN <<[text |-> current, start |-> currentStart]>> ELSE <<>>
  ELSE LET word == Head(words)
           next == IF current # <<>> THEN current \o <<" ">> \o word ELSE word
       IN IF word = <<>>
          THEN SplitLoop(Tail(words), startOffset, current, currentStart, cursor)
          ELSE IF Len(next) <= MAX_CHUNK_LENGTH
               THEN SplitLoop(Tail(words), startOffset, next,
                              IF current = <<>> THEN startOffset + cursor ELSE currentStart,
                              cursor + Len(word) + 1)
               ELSE (IF current # <<>>
                     THEN <<[text |-> current, start |-> currentStart]>>
                     ELSE <<>>)
                    \o SplitLoop(Tail(words), startOffset, word,
                                 startOffset + cursor, cursor + Len(word) + 1)

\* splitLongSentence that counts its offsets from 0
splitLongSentenceMut(sentence, startOffset) ==
  SplitLoop(SplitWs(sentence), 0, <<>>, 0, 0)

splitLongSentence(sentence, startOffset) ==
  SplitLoop(SplitWs(sentence), startOffset, <<>>, startOffset, 0)

\* sentenceRegex.exec without the trailing \s* of the pattern
RegexExecMut(normalized, lastIndex) ==
  LET rest  == SliceFrom(normalized, lastIndex)
      skip  == SpanIn(rest, Terminators)
      body  == SliceFrom(rest, skip)
      n1    == SpanNotIn(body, Terminators)
      n2    == SpanIn(SliceFrom(body, n1), Terminators)
  IN [index |-> lastIndex + skip, len |-> IF n1 = 0 THEN 0 ELSE n1 + n2]

\* one sentenceRegex.exec from lastIndex: /[^.!?]+[.!?]*\s*/g.  The match
\* begins at the first non-terminator at or after lastIndex and takes the
\* non-terminators, then the terminators, then the whitespace that follow.
\* Result: [index, len], len = 0 when exec returns null.
RegexExec(normalized, lastIndex) ==
  LET rest  == SliceFrom(normalized, lastIndex)
      skip  == SpanIn(rest, Terminators)
      body  == SliceFrom(rest, skip)
      n1    == SpanNotIn(body, Terminators)
      n2    == SpanIn(SliceFrom(body, n1), Terminators)
      n3    == SpanIn(SliceFrom(body, n1 + n2), WhiteSpace)
  IN [index |-> lastIndex + skip, len |-> IF n1 = 0 THEN 0 ELSE n1 + n2 + n3]

\* the while loop of chunkText
RECURSIVE ChunkLoop(_, _)
ChunkLoop(normalized, lastIndex) ==
  LET m == RegexExec(normalized, lastIndex)
      sentence == Trim(Slice(normalized, m.index, m.index + m.len))
  IN IF m.len = 0 THEN <<>>
     ELSE (IF sentence = <<>> THEN <<>>
           ELSE IF Len(sentence) <= MAX_CHUNK_LENGTH
                THEN <<[text |-> sentence, start |-> m.index]>>
                ELSE splitLongSentence(sentence, m.index))
          \o ChunkLoop(normalized, m.index + m.len)

chunkText(text) ==
  LET normalized == Normalize(text)
      chunks == ChunkLoop(normalized, 0)
  IN IF normalized = <<>> THEN <<>>
     ELSE IF chunks = <<>> THEN splitLongSentence(normalized, 0)
     ELSE chunks

\* chunks.map(c => c.text).join(" ")
RECURSIVE JoinChunks(_)
JoinChunks(chunks) ==
  IF chunks = <<>> THEN <<>>
  ELSE IF Len(chunks) = 1 THEN chunks[1].text
  ELSE chunks[1].text \o <<" ">> \o JoinChunks(Tail(chunks))

(***************************************************************************)
(* Bounds and inputs of the playback model                                 *)
(***************************************************************************)

\* speak() calls with a non-blank text in one run
MaxSessions == 2

\* utterances created in one run
MaxUtt == 3

\* backend events in flight (fired, handler not yet run)
MaxEvents == 1

\* Date.now() advances by TimeStep milliseconds up to MaxNow
TimeStep == 500

MaxNow == 1000

\* the texts handed to speak()
SpeakTexts ==
  { <<"a", "b", ".", " ", "c", " ">>,
    <<" ", "\n">> }

\* options.rate of a speak() call, in hundredths
Rates == {100}

\* event.charIndex values the backend reports in boundary events
BoundaryIdx == {-1, 1}

UttIds == 1..MaxUtt

SessionIds == 1..MaxSessions

(***************************************************************************)
(* State                                                                   *)
(***************************************************************************)

VARIABLES
  isSpeaking,        \* useState isSpeaking
  isPaused,          \* useState isPaused
  queue,             \* queueRef.current
  activeUtterance,   \* activeUtteranceRef.current: utterance id, 0 = null
  sourceText,        \* sourceTextRef.current
  lastCharIndex,     \* lastCharIndexRef.current
  lastSpeakOptions,  \* lastSpeakOptionsRef.current: [sid, rate], sid 0 = null
  progressTimer,     \* progressTimerRef.current: timer id, 0 = null
  timers,            \* interval timers set and not cleared (window.setInterval)
  utt,               \* the closures of the utterances created by playQueue
  nextUtt,           \* number of utterances created
  synthQueue,        \* speechSynthesis: utterances submitted, not yet finished
  synthBegun,        \* speechSynthesis: the utterance at the head is being spoken
  synthPaused,       \* speechSynthesis.paused
  synthEager,        \* the browser: speechSynthesis.speaking is true as soon as an
                     \* utterance is queued, not only once it is being spoken
  events,            \* utterance events fired by the backend, handler not run yet
  now,               \* Date.now()
  session,           \* the speak() call in force, 0 before speak and after stop
  nSessions,         \* number of speak() calls with non-blank text
  endCount,          \* per speak() call, invocations of its onEnd (counted to 2)
  lastReport,        \* the index of the latest onBoundary since speak/stop, -1 = none
  lastCall,          \* the latest call of the API: "pause" for a pause() that acted,
                     \* "pause-resume" for a resume() that follows one, else "other"
  timerReport,       \* the latest index the callback of the interval timer now set
                     \* has passed to onBoundary, -1 = none
  step,              \* what the latest handler did: kind, utterance, callback, backend calls
  editorText,        \* SuperDocReader: editorTextRef.current
  pausedIndex,       \* SuperDocReader: pausedIndexRef.current
  currentCharIndex,  \* SuperDocReader: the state currentCharIndex
  pausedByEdit,      \* SuperDocReader: the state pausedByEdit
  programmaticSelection,  \* SuperDocReader: programmaticSelectionRef.current
  readerCall,        \* SuperDocReader: the latest handler of the reader that ran
  texte,             \* PdfReader: the state texte
  indexMap,          \* PdfReader: indexMap of the latest lancerLecture call
  analysis,          \* readingAnalysis: the latest request for a suggestion
  history            \* readingHistory: the entries in localStorage, the clock, the calls

hookVars == <<isSpeaking, isPaused, queue, activeUtterance, sourceText,
              lastCharIndex, lastSpeakOptions, progressTimer>>

envVars == <<timers, utt, nextUtt, synthQueue, synthBegun, synthPaused, synthEager,
             events, now>>

ghostVars == <<session, nSessions, endCount, lastReport, lastCall, timerReport, step>>

pdfVars == <<texte, indexMap, analysis, history>>

readerVars ==
  <<editorText, pausedIndex, currentCharIndex, pausedByEdit, programmaticSelection, readerCall,
    pdfVars>>

vars == <<hookVars, envVars, ghostVars, readerVars>>

\* window.speechSynthesis.speaking.  Browsers differ on an utterance that is
\* queued and not yet spoken: the flag is then synthEager.
synthSpeaking == IF synthEager THEN synthQueue # <<>> ELSE synthBegun

NoChunk == [text |-> <<>>, start |-> 0]

\* options.onBoundary and options.onEnd are optional: safeStart of a speak() call
\* whose callbacks are not the ones readFromIndex passes
NoStart == -1

\* the closure variables of an utterance: next, baseOptions, startedAt,
\* pausedAt, pausedDuration, lastBoundaryAt
NoUtt == [chunk |-> NoChunk, sid |-> 0, rate |-> 0, safeStart |-> NoStart, startedAt |-> 0,
          pausedAt |-> 0, pausedDuration |-> 0, lastBoundaryAt |-> 0]

NoOptions == [sid |-> 0, rate |-> 0, safeStart |-> NoStart]

\* what the handler of utterance u did (u = 0: the API, the state poll): its
\* kind, the speak() call whose options its closure holds, the callbacks it
\* invoked and the backend calls it made
St(kind, u, cb, calls) ==
  [kind |-> kind, sid |-> IF u = 0 THEN 0 ELSE utt[u].sid, cb |-> cb, calls |-> calls]

\* the state of a mounted hook, but for the source text
InitRest ==
  /\ isSpeaking = FALSE
  /\ isPaused = FALSE
  /\ queue = <<>>
  /\ activeUtterance = 0
  /\ lastCharIndex = 0
  /\ lastSpeakOptions = NoOptions
  /\ progressTimer = 0
  /\ timers = {}
  /\ utt = [u \in UttIds |-> NoUtt]
  /\ nextUtt = 0
  /\ synthQueue = <<>>
  /\ synthBegun = FALSE
  /\ synthPaused = FALSE
  /\ events = <<>>
  /\ now = TimeStep
  /\ session = 0
  /\ nSessions = 0
  /\ endCount = [s \in SessionIds |-> 0]
  /\ lastReport = -1
  /\ lastCall = "other"
  /\ timerReport = -1
  /\ step = St("init", 0, {}, {})

\* no request for a suggestion has been made: the function called, whether its
\* promise is pending, the response of the service and the outcome of the promise;
\* configured is isAiConfigured()
NoAnalysis ==
  [configured |-> FALSE, fn |-> "none", phase |-> "idle", response |-> "none",
   result |-> "none"]

\* nothing is stored: the entries under STORAGE_KEY, the clock of updatedAt, the
\* number of calls made and the latest call
NoHistory ==
  [entries |-> <<>>, clock |-> 0, calls |-> 0,
   last |-> [op |-> "none", id |-> "", blank |-> FALSE, stored |-> FALSE]]

\* PdfReader before a document is loaded
InitPdf ==
  /\ texte = <<>>
  /\ indexMap = <<>>
  /\ analysis = NoAnalysis
  /\ history = NoHistory

\* the reader before a document is loaded
InitReader ==
  /\ editorText = <<>>
  /\ pausedIndex = 0
  /\ currentCharIndex = 0
  /\ pausedByEdit = FALSE
  /\ programmaticSelection = FALSE
  /\ readerCall = "none"
  /\ InitPdf

Init ==
  /\ sourceText = <<>>
  /\ synthEager \in BOOLEAN
  /\ InitRest
  /\ InitReader

(***************************************************************************)
(* Helpers of the hook                                                     *)
(***************************************************************************)

\* the relative index clamped from below only
ClampedMut(chunk, relativeIndex) == Max(0, relativeIndex)

\* Math.max(0, Math.min(relativeIndex, Math.max(0, next.text.length - 1)))
Clamped(chunk, relativeIndex) ==
  Max(0, Min(relativeIndex, Max(0, Len(chunk.text) - 1)))

AbsoluteIndex(chunk, relativeIndex) == chunk.start + Clamped(chunk, relativeIndex)

\* emitProgress goes on to report unless absoluteIndex < lastCharIndexRef.current
EmitAllowedMut(absoluteIndex, last) == TRUE

EmitAllowed(absoluteIndex, last) == ~(absoluteIndex < last)

\* does emitProgress(relativeIndex) of utterance u call onBoundary
Reports(u, relativeIndex) ==
  EmitAllowed(AbsoluteIndex(utt[u].chunk, relativeIndex), lastCharIndex)

\* emitProgress(relativeIndex) in the closure of utterance u
emitProgress(u, relativeIndex) ==
  LET absoluteIndex == AbsoluteIndex(utt[u].chunk, relativeIndex)
  IN IF Reports(u, relativeIndex)
     THEN /\ lastCharIndex' = absoluteIndex
          /\ lastReport' = absoluteIndex
     ELSE UNCHANGED <<lastCharIndex, lastReport>>

\* clearProgressTimer that forgets the stored timer without clearing it
clearProgressTimerMut(newTimer) ==
  /\ timers' = timers \cup (IF newTimer = 0 THEN {} ELSE {newTimer})
  /\ progressTimer' = newTimer
  /\ timerReport' = -1

\* clearProgressTimer(), then the timer newTimer (0 = none) is set
clearProgressTimer(newTimer) ==
  /\ timers' = (timers \ {progressTimer}) \cup (IF newTimer = 0 THEN {} ELSE {newTimer})
  /\ progressTimer' = newTimer
  /\ timerReport' = -1

\* the utterances the backend or a timer can still call back: those in the
\* backend queue sq, those with an event in flight in ev and the one whose
\* timer is in tm; the closures of the others are unreachable and dropped
Collect(f, sq, ev, tm) ==
  [u \in UttIds |->
     IF \/ \E i \in 1..Len(sq) : sq[i] = u
        \/ \E i \in 1..Len(ev) : ev[i].u = u
        \/ u \in tm
     THEN f[u] ELSE NoUtt]

\* the error events speechSynthesis.cancel() fires on the utterances it removes
CancelEvents(sq) == [i \in 1..Len(sq) |-> [kind |-> "error", u |-> sq[i], ci |-> 0]]

\* textChunks.map(chunk => ({...chunk, start: chunk.start + startOffset}))
Shifted(chunks, startOffset) ==
  [i \in 1..Len(chunks) |-> [text |-> chunks[i].text, start |-> chunks[i].start + startOffset]]

\* playQueue that takes the last chunk of the queue instead of the first
playQueueMut(q, options, sq, spk, psd, ev, tm) ==
  IF q = <<>>
  THEN /\ queue' = <<>>
       /\ activeUtterance' = 0
       /\ isSpeaking' = FALSE
       /\ isPaused' = FALSE
       /\ endCount' = [endCount EXCEPT ![options.sid] = Min(2, @ + 1)]
       /\ synthQueue' = sq
       /\ utt' = Collect(utt, sq, ev, tm)
       /\ UNCHANGED nextUtt
  ELSE /\ nextUtt < MaxUtt
       /\ queue' = SubSeq(q, 1, Len(q) - 1)
       /\ nextUtt' = nextUtt + 1
       /\ utt' = Collect([utt EXCEPT ![nextUtt + 1] =
                            [NoUtt EXCEPT !.chunk = q[Len(q)], !.sid = options.sid,
                                          !.rate = options.rate,
                                          !.safeStart = options.safeStart]],
                         Append(sq, nextUtt + 1), ev, tm)
       /\ activeUtterance' = nextUtt + 1
       /\ synthQueue' = Append(sq, nextUtt + 1)
       /\ isSpeaking' = spk
       /\ isPaused' = psd
       /\ UNCHANGED endCount

\* playQueue() of the startQueue call made with baseOptions = options, on the
\* queue q and the backend queue sq; spk and psd are the values the caller
\* has given isSpeaking and isPaused so far, ev and tm the events in flight
\* and the timers the caller leaves
playQueue(q, options, sq, spk, psd, ev, tm) ==
  IF q = <<>>
  THEN /\ queue' = <<>>
       /\ activeUtterance' = 0
       /\ isSpeaking' = FALSE
       /\ isPaused' = FALSE
       /\ endCount' = [endCount EXCEPT ![options.sid] = Min(2, @ + 1)]
       /\ synthQueue' = sq
       /\ utt' = Collect(utt, sq, ev, tm)
       /\ UNCHANGED nextUtt
  ELSE /\ nextUtt < MaxUtt
       /\ queue' = Tail(q)
       /\ nextUtt' = nextUtt + 1
       /\ utt' = Collect([utt EXCEPT ![nextUtt + 1] =
                            [NoUtt EXCEPT !.chunk = Head(q), !.sid = options.sid,
                                          !.rate = options.rate,
                                          !.safeStart = options.safeStart]],
                         Append(sq, nextUtt + 1), ev, tm)
       /\ activeUtterance' = nextUtt + 1
       /\ synthQueue' = Append(sq, nextUtt + 1)
       /\ isSpeaking' = spk
       /\ isPaused' = psd
       /\ UNCHANGED endCount

\* the callbacks and backend calls of playQueue on the queue q
PlayCb(q) == IF q = <<>> THEN {"end"} ELSE {}

PlayCalls(q) == IF q = <<>> THEN {} ELSE {"speak"}

(***************************************************************************)
(* The hook's API: speak, stop, pause, resume                              *)
(***************************************************************************)

\* the kind of step a speak(text) call is recorded as
SpeakKind(text) == IF WhitespaceOnly(text) THEN "speakBlank" ELSE "speak"

\* speak(options) of the hook: options.text, options.rate, and the callbacks of
\* readFromIndex(safeStart) unless safeStart is NoStart
speakCall(text, rate, safeStart) ==
  IF IsBlank(text)
  THEN /\ lastCall' = "other"
       /\ step' = St(SpeakKind(text), 0, {}, {})
       /\ UNCHANGED <<hookVars, envVars, session, nSessions, timerReport, endCount,
                      lastReport>>
  ELSE /\ nSessions < MaxSessions
       /\ LET sid == nSessions + 1
              options == [sid |-> sid, rate |-> rate, safeStart |-> safeStart]
              textChunks == chunkText(text)
          IN /\ session' = sid
             /\ nSessions' = sid
             /\ events' = events \o CancelEvents(synthQueue)
             /\ synthBegun' = FALSE
             /\ sourceText' = text
             /\ lastCharIndex' = 0
             /\ lastSpeakOptions' = options
             /\ lastReport' = -1
             /\ IF textChunks = <<>>
                THEN /\ isPaused' = FALSE
                     /\ synthQueue' = <<>>
                     /\ step' = St(SpeakKind(text), 0, {"onStart"}, {"cancel"})
                     /\ UNCHANGED <<isSpeaking, queue, activeUtterance, utt,
                                    nextUtt, endCount>>
                ELSE /\ playQueue(Shifted(textChunks, 0), options, <<>>, isSpeaking, FALSE,
                                  events \o CancelEvents(synthQueue), timers)
                     /\ step' = St(SpeakKind(text), 0, {"onStart"}, {"cancel", "speak"})
       /\ lastCall' = "other"
       /\ UNCHANGED <<progressTimer, timers, synthPaused, now, synthEager, timerReport>>

\* speak() called by a component other than the reader
speak(text, rate) ==
  /\ speakCall(text, rate, NoStart)
  /\ UNCHANGED readerVars

\* stop() of the hook
stopCall ==
  /\ clearProgressTimer(0)
  /\ queue' = <<>>
  /\ activeUtterance' = 0
  /\ sourceText' = <<>>
  /\ lastCharIndex' = 0
  /\ lastSpeakOptions' = NoOptions
  /\ events' = events \o CancelEvents(synthQueue)
  /\ synthQueue' = <<>>
  /\ synthBegun' = FALSE
  /\ isSpeaking' = FALSE
  /\ isPaused' = FALSE
  /\ session' = 0
  /\ lastReport' = -1
  /\ lastCall' = "other"
  /\ step' = St("stop", 0, {}, {"cancel"})
  /\ utt' = Collect(utt, <<>>, events \o CancelEvents(synthQueue), {})
  /\ UNCHANGED <<nextUtt, synthPaused, now, synthEager, nSessions, endCount>>

stop ==
  /\ stopCall
  /\ UNCHANGED readerVars

\* the condition under which pause() acts
PauseActsMut ==
  synthSpeaking \/ activeUtterance # 0 \/ Len(queue) > 0

PauseActs ==
  ~synthPaused /\ (synthSpeaking \/ activeUtterance # 0 \/ Len(queue) > 0)

\* pause() of the hook
pauseCall ==
  /\ IF PauseActs
     THEN /\ synthBegun => Len(events) < MaxEvents
          /\ synthPaused' = TRUE
          /\ events' = IF synthBegun
                       THEN Append(events, [kind |-> "pause", u |-> Head(synthQueue), ci |-> 0])
                       ELSE events
          /\ isPaused' = TRUE
          /\ isSpeaking' = FALSE
          /\ lastCall' = "pause"
          /\ step' = St("pause", 0, {}, {"pause"})
     ELSE /\ lastCall' = "other"
          /\ step' = St("pause", 0, {}, {})
          /\ UNCHANGED <<synthPaused, events, isPaused, isSpeaking>>
  /\ UNCHANGED <<queue, activeUtterance, sourceText, lastCharIndex, lastSpeakOptions,
                 progressTimer, timers, utt, nextUtt, synthQueue, synthBegun, now, synthEager,
                 session, nSessions, timerReport, endCount, lastReport>>

pause ==
  /\ pauseCall
  /\ UNCHANGED readerVars

\* resume() takes the backend's native resume
ResumeNativeMut == synthPaused /\ synthSpeaking

ResumeNative == synthPaused \/ isPaused

\* resume() starts a new queue from lastCharIndexRef.current
ResumeRestarts ==
  /\ ~synthSpeaking
  /\ lastSpeakOptions # NoOptions
  /\ sourceText # <<>>
  /\ lastCharIndex < Len(sourceText) - 1

\* resume() of the hook
resumeCall ==
  IF ResumeNative
  THEN /\ (synthPaused /\ synthBegun) => Len(events) < MaxEvents
       /\ synthPaused' = FALSE
       /\ events' = IF synthPaused /\ synthBegun
                    THEN Append(events, [kind |-> "resume", u |-> Head(synthQueue), ci |-> 0])
                    ELSE events
       /\ isPaused' = FALSE
       /\ isSpeaking' = TRUE
       /\ lastCall' = IF lastCall = "pause" THEN "pause-resume" ELSE "other"
       /\ step' = St("resume", 0, {}, {"resume"})
       /\ UNCHANGED <<queue, activeUtterance, sourceText, lastCharIndex, lastSpeakOptions,
                      progressTimer, timers, utt, nextUtt, synthQueue, synthBegun, now, synthEager,
                      session, nSessions, timerReport, endCount, lastReport>>
  ELSE IF ResumeRestarts
  THEN LET textChunks == chunkText(SliceFrom(sourceText, lastCharIndex))
       IN /\ events' = events \o CancelEvents(synthQueue)
          /\ synthBegun' = FALSE
          /\ IF textChunks = <<>>
             THEN /\ isPaused' = FALSE
                  /\ synthQueue' = <<>>
                  /\ step' = St("resume", 0, {}, {"cancel"})
                  /\ UNCHANGED <<isSpeaking, queue, activeUtterance, utt, nextUtt, endCount>>
             ELSE /\ playQueue(Shifted(textChunks, lastCharIndex), lastSpeakOptions, <<>>,
                               isSpeaking, FALSE, events \o CancelEvents(synthQueue),
                               timers)
                  /\ step' = St("resume", 0, {}, {"cancel", "speak"})
          /\ lastCall' = IF lastCall = "pause" THEN "pause-resume" ELSE "other"
          /\ UNCHANGED <<sourceText, lastCharIndex, lastSpeakOptions, progressTimer, timers,
                         synthPaused, now, synthEager, session, nSessions,
                         timerReport, lastReport>>
  ELSE /\ lastCall' = IF lastCall = "pause" THEN "pause-resume" ELSE "other"
       /\ step' = St("resume", 0, {}, {})
       /\ UNCHANGED <<hookVars, envVars, session, nSessions, timerReport, endCount,
                      lastReport>>

resume ==
  /\ resumeCall
  /\ UNCHANGED readerVars

\* syncState, run every 180 ms
syncState ==
  /\ isPaused' = synthPaused
  /\ isSpeaking' = (synthSpeaking /\ ~synthPaused)
  /\ step' = St("sync", 0, {}, {})
  /\ UNCHANGED <<queue, activeUtterance, sourceText, lastCharIndex, lastSpeakOptions,
                 progressTimer, envVars, session, nSessions, readerVars, timerReport, endCount,
                 lastReport, lastCall>>

(***************************************************************************)
(* Handlers of the utterance events and of the progress timer              *)
(***************************************************************************)

\* the event whose handler runs next
Delivered(kind) == events # <<>> /\ Head(events).kind = kind

EvU == Head(events).u

\* baseOptions in the closure of utterance u
OptionsOf(u) == [sid |-> utt[u].sid, rate |-> utt[u].rate, safeStart |-> utt[u].safeStart]

\* currentCharIndex after emitProgress(relativeIndex) of utterance u: the onBoundary
\* readFromIndex passes is setCurrentCharIndex(absoluteIndex)
AfterBoundary(u, relativeIndex) ==
  IF utt[u].safeStart # NoStart /\ Reports(u, relativeIndex)
  THEN AbsoluteIndex(utt[u].chunk, relativeIndex)
  ELSE currentCharIndex

\* programmaticSelectionRef.current after emitProgress(relativeIndex) of utterance u:
\* the onBoundary readFromIndex passes calls pushEditorSelection
Selecting(u, relativeIndex) ==
  (utt[u].safeStart # NoStart /\ Reports(u, relativeIndex)) \/ programmaticSelection

\* currentCharIndex after playQueue() in a handler of utterance u, cur so far: on an
\* empty queue the onEnd readFromIndex passes is setCurrentCharIndex(safeStart)
AfterEnd(u, cur) ==
  IF utt[u].safeStart # NoStart /\ queue = <<>> THEN utt[u].safeStart ELSE cur

\* utterance.onstart
onstart ==
  /\ Delivered("start")
  /\ events' = Tail(events)
  /\ clearProgressTimer(EvU)
  /\ isSpeaking' = TRUE
  /\ isPaused' = FALSE
  /\ utt' = Collect([utt EXCEPT ![EvU].startedAt = now, ![EvU].pausedDuration = 0,
                                ![EvU].lastBoundaryAt = now],
                     synthQueue, Tail(events), {EvU})
  /\ emitProgress(EvU, 0)
  /\ step' = St("start", EvU, IF Reports(EvU, 0) THEN {"boundary"} ELSE {}, {})
  /\ currentCharIndex' = AfterBoundary(EvU, 0)
  /\ programmaticSelection' = Selecting(EvU, 0)
  /\ UNCHANGED <<queue, activeUtterance, sourceText, lastSpeakOptions, nextUtt,
                 synthQueue, synthBegun, synthPaused, now, synthEager, session, nSessions,
                 editorText, pausedIndex, pausedByEdit, readerCall, pdfVars,
                 endCount, lastCall>>

\* an onpause that leaves isSpeaking as it is
onpauseMut ==
  /\ Delivered("pause")
  /\ events' = Tail(events)
  /\ utt' = Collect([utt EXCEPT ![EvU].pausedAt = now], synthQueue, Tail(events), timers)
  /\ isPaused' = TRUE
  /\ step' = St("pause-event", EvU, {}, {})
  /\ UNCHANGED <<isSpeaking, queue, activeUtterance, sourceText, lastCharIndex,
                 lastSpeakOptions, progressTimer, timers, nextUtt, synthQueue, synthBegun,
                 synthPaused, now, synthEager, session, nSessions, readerVars, timerReport,
                 endCount, lastReport, lastCall>>

\* utterance.onpause
onpause ==
  /\ Delivered("pause")
  /\ events' = Tail(events)
  /\ utt' = Collect([utt EXCEPT ![EvU].pausedAt = now], synthQueue, Tail(events), timers)
  /\ isPaused' = TRUE
  /\ isSpeaking' = FALSE
  /\ step' = St("pause-event", EvU, {}, {})
  /\ UNCHANGED <<queue, activeUtterance, sourceText, lastCharIndex, lastSpeakOptions,
                 progressTimer, timers, nextUtt, synthQueue, synthBegun, synthPaused,
                 now, synthEager, session, nSessions, readerVars, timerReport, endCount,
                 lastReport, lastCall>>

\* utterance.onresume
onresume ==
  /\ Delivered("resume")
  /\ events' = Tail(events)
  /\ utt' = Collect(IF utt[EvU].pausedAt > 0
                     THEN [utt EXCEPT ![EvU].pausedDuration = @ + (now - utt[EvU].pausedAt),
                                      ![EvU].pausedAt = 0]
                     ELSE utt,
                     synthQueue, Tail(events), timers)
  /\ isPaused' = FALSE
  /\ isSpeaking' = TRUE
  /\ step' = St("resume-event", EvU, {}, {})
  /\ UNCHANGED <<queue, activeUtterance, sourceText, lastCharIndex, lastSpeakOptions,
                 progressTimer, timers, nextUtt, synthQueue, synthBegun, synthPaused,
                 now, synthEager, session, nSessions, readerVars, timerReport, endCount,
                 lastReport, lastCall>>

\* utterance.onboundary
onboundary ==
  /\ Delivered("boundary")
  /\ events' = Tail(events)
  /\ utt' = Collect([utt EXCEPT ![EvU].lastBoundaryAt = now], synthQueue, Tail(events),
                     timers)
  /\ emitProgress(EvU, Head(events).ci)
  /\ step' = St("boundary", EvU,
                IF Reports(EvU, Head(events).ci) THEN {"boundary"} ELSE {}, {})
  /\ currentCharIndex' = AfterBoundary(EvU, Head(events).ci)
  /\ programmaticSelection' = Selecting(EvU, Head(events).ci)
  /\ UNCHANGED <<isSpeaking, isPaused, queue, activeUtterance, sourceText,
                 lastSpeakOptions, progressTimer, timers, nextUtt, synthQueue,
                 synthBegun, synthPaused, now, synthEager, session, nSessions,
                 editorText, pausedIndex, pausedByEdit, readerCall, pdfVars,
                 timerReport, endCount, lastCall>>

\* utterance.onend
onend ==
  /\ Delivered("end")
  /\ events' = Tail(events)
  /\ emitProgress(EvU, Len(utt[EvU].chunk.text) - 1)
  /\ clearProgressTimer(0)
  /\ playQueue(queue, OptionsOf(EvU), synthQueue,
               isSpeaking, isPaused, Tail(events), timers \ {progressTimer})
  /\ step' = St("end", EvU,
                (IF Reports(EvU, Len(utt[EvU].chunk.text) - 1) THEN {"boundary"} ELSE {})
                  \cup PlayCb(queue),
                PlayCalls(queue))
  /\ currentCharIndex' = AfterEnd(EvU, AfterBoundary(EvU, Len(utt[EvU].chunk.text) - 1))
  /\ programmaticSelection' = Selecting(EvU, Len(utt[EvU].chunk.text) - 1)
  /\ UNCHANGED <<sourceText, lastSpeakOptions, synthBegun, synthPaused, now, synthEager,
                 session, nSessions,
                 editorText, pausedIndex, pausedByEdit, readerCall, pdfVars, lastCall>>

\* an onerror that clears the timer and does not call playQueue
onerrorMut ==
  /\ Delivered("error")
  /\ events' = Tail(events)
  /\ clearProgressTimer(0)
  /\ utt' = Collect(utt, synthQueue, Tail(events), timers \ {progressTimer})
  /\ step' = St("error", EvU, {}, {})
  /\ UNCHANGED <<isSpeaking, isPaused, queue, activeUtterance, nextUtt, synthQueue, endCount,
                 sourceText, lastCharIndex, lastSpeakOptions, synthBegun, synthPaused,
                 now, synthEager, session, nSessions, readerVars, lastReport, lastCall>>

\* utterance.onerror
onerror ==
  /\ Delivered("error")
  /\ events' = Tail(events)
  /\ clearProgressTimer(0)
  /\ playQueue(queue, OptionsOf(EvU), synthQueue,
               isSpeaking, isPaused, Tail(events), timers \ {progressTimer})
  /\ step' = St("error", EvU, PlayCb(queue), PlayCalls(queue))
  /\ currentCharIndex' = AfterEnd(EvU, currentCharIndex)
  /\ UNCHANGED programmaticSelection
  /\ UNCHANGED <<sourceText, lastCharIndex, lastSpeakOptions, synthBegun, synthPaused,
                 now, synthEager, session, nSessions,
                 editorText, pausedIndex, pausedByEdit, readerCall, pdfVars, lastReport, lastCall>>

\* Math.floor((elapsedMs / 1000) * 11 * (utterance.rate || 1)), rate in hundredths
Estimated(u, t) ==
  LET elapsedMs == Max(0, t - utt[u].startedAt - utt[u].pausedDuration)
      rate == IF utt[u].rate = 0 THEN 100 ELSE utt[u].rate
  IN (elapsedMs * 11 * rate) \div 100000

\* the interval callback without the test of speechSynthesis.paused
TickReportsMut(u) ==
  /\ synthSpeaking
  /\ ~(now - utt[u].lastBoundaryAt < 500)

\* the interval callback goes on to extrapolate
TickReports(u) ==
  /\ synthSpeaking
  /\ ~synthPaused
  /\ ~(now - utt[u].lastBoundaryAt < 500)

\* the body of the interval callback utterance u's onstart has set
timerCallback(u) ==
  /\ IF TickReports(u)
     THEN /\ emitProgress(u, Estimated(u, now))
          /\ timerReport' = IF Reports(u, Estimated(u, now))
                            THEN AbsoluteIndex(utt[u].chunk, Estimated(u, now))
                            ELSE timerReport
          /\ step' = St("tick", u,
                        IF Reports(u, Estimated(u, now)) THEN {"boundary"} ELSE {}, {})
     ELSE /\ step' = St("tick", u, {}, {})
          /\ UNCHANGED <<lastCharIndex, lastReport, timerReport>>
  /\ currentCharIndex' = IF TickReports(u) THEN AfterBoundary(u, Estimated(u, now))
                          ELSE currentCharIndex
  /\ programmaticSelection' = IF TickReports(u) THEN Selecting(u, Estimated(u, now))
                               ELSE programmaticSelection
  /\ UNCHANGED <<isSpeaking, isPaused, queue, activeUtterance, sourceText,
                 lastSpeakOptions, progressTimer, session, nSessions,
                 editorText, pausedIndex, pausedByEdit, readerCall, pdfVars,
                 endCount, lastCall>>

\* one run of the interval callback, at any time
timerTick(u) ==
  /\ u \in timers
  /\ timerCallback(u)
  /\ UNCHANGED envVars

(***************************************************************************)
(* The speech backend (window.speechSynthesis) and the clock               *)
(***************************************************************************)

backendUnchanged ==
  /\ step' = St("backend", 0, {}, {})
  /\ UNCHANGED <<hookVars, timers, utt, nextUtt, now, synthEager, session, nSessions,
                 readerVars, timerReport, endCount,
                 lastReport, lastCall>>

\* the backend begins to speak the utterance at the head of its queue
synthBegin ==
  /\ synthQueue # <<>>
  /\ ~synthBegun
  /\ ~synthPaused
  /\ Len(events) < MaxEvents
  /\ synthBegun' = TRUE
  /\ events' = Append(events, [kind |-> "start", u |-> Head(synthQueue), ci |-> 0])
  /\ UNCHANGED <<synthQueue, synthPaused>>
  /\ backendUnchanged

\* the backend reaches a word boundary of the utterance it speaks
synthBoundary(ci) ==
  /\ synthBegun
  /\ ~synthPaused
  /\ Len(events) < MaxEvents
  /\ events' = Append(events, [kind |-> "boundary", u |-> Head(synthQueue), ci |-> ci])
  /\ UNCHANGED <<synthQueue, synthBegun, synthPaused>>
  /\ backendUnchanged

\* the backend finishes the utterance it speaks, normally or with an error
synthFinish(kind) ==
  /\ synthBegun
  /\ ~synthPaused
  /\ Len(events) < MaxEvents
  /\ events' = Append(events, [kind |-> kind, u |-> Head(synthQueue), ci |-> 0])
  /\ synthQueue' = Tail(synthQueue)
  /\ synthBegun' = FALSE
  /\ UNCHANGED synthPaused
  /\ backendUnchanged

\* time passes; Date.now() is read by the closures of started utterances
\* only, and what they compute is read by the interval timer only
tick ==
  /\ timers # {}
  /\ now + TimeStep <= MaxNow
  /\ now' = now + TimeStep
  /\ step' = St("time", 0, {}, {})
  /\ UNCHANGED <<hookVars, timers, utt, nextUtt, synthQueue, synthBegun,
                 synthPaused, synthEager, events, session, nSessions, readerVars, timerReport,
                 endCount, lastReport, lastCall>>

Next ==
  \/ \E text \in SpeakTexts, rate \in Rates : speak(text, rate)
  \/ stop
  \/ pause
  \/ resume
  \/ syncState
  \/ onstart
  \/ onpause
  \/ onresume
  \/ onboundary
  \/ onend
  \/ onerror
  \/ \E u \in UttIds : timerTick(u)
  \/ synthBegin
  \/ \E ci \in BoundaryIdx : synthBoundary(ci)
  \/ \E kind \in {"end", "error"} : synthFinish(kind)
  \/ tick

Spec == Init /\ [][Next]_vars

(***************************************************************************)
(* Playback left to the backend: the caller makes its calls up to its last *)
(* speak(), then the backend, the handlers and the poll run on their own   *)
(***************************************************************************)

\* the caller has made its last speak()
LastSpeakMade == nSessions = MaxSessions

NextLive ==
  \/ \E text \in SpeakTexts, rate \in Rates : speak(text, rate)
  \/ ~LastSpeakMade /\ stop
  \/ ~LastSpeakMade /\ pause
  \/ ~LastSpeakMade /\ resume
  \/ syncState
  \/ onstart
  \/ onpause
  \/ onresume
  \/ onboundary
  \/ onend
  \/ onerror
  \/ \E u \in UttIds : timerTick(u)
  \/ synthBegin
  \/ \E ci \in BoundaryIdx : synthBoundary(ci)
  \/ \E kind \in {"end", "error"} : synthFinish(kind)
  \/ tick

\* the event loop runs the handler of every event in flight, and the backend
\* begins the utterance at the head of its queue unless it is paused
FairLive ==
  /\ WF_vars(onstart)
  /\ WF_vars(onpause)
  /\ WF_vars(onresume)
  /\ WF_vars(onboundary)
  /\ WF_vars(onend)
  /\ WF_vars(onerror)
  /\ WF_vars(synthBegin)

SpecLive == Init /\ [][NextLive]_vars /\ FairLive

\* a caller that speaks, pauses and resumes a paused backend
NextEnd ==
  \/ \E text \in SpeakTexts, rate \in Rates : speak(text, rate)
  \/ pause
  \/ synthPaused /\ resume
  \/ syncState
  \/ onstart
  \/ onpause
  \/ onresume
  \/ onboundary
  \/ onend
  \/ onerror
  \/ \E u \in UttIds : timerTick(u)
  \/ synthBegin
  \/ \E ci \in BoundaryIdx : synthBoundary(ci)
  \/ \E kind \in {"end", "error"} : synthFinish(kind)
  \/ tick

\* the event loop runs every handler; the backend begins and finishes, with
\* an end or an error event, every utterance it is given; every pause is
\* followed by a resume
FairEnd ==
  /\ FairLive
  /\ SF_vars(synthBegin)
  /\ SF_vars(\E kind \in {"end", "error"} : synthFinish(kind))
  /\ SF_vars(synthPaused /\ resume)

SpecEnd == Init /\ [][NextEnd]_vars /\ FairEnd

(***************************************************************************)
(* The chunker on its own: startQueue's chunking of a text                 *)
(***************************************************************************)

\* the characters of the short texts
ChunkAlphabet == {"a", " ", "\n", ".", "?"}

\* length of the short texts
MaxTextLen == 4

Rep(c, n) == [i \in 1..n |-> c]

\* word lengths around MAX_CHUNK_LENGTH
LongWordLens == {MAX_CHUNK_LENGTH \div 2, MAX_CHUNK_LENGTH, MAX_CHUNK_LENGTH + 1}

\* two words, a separator between them, and an end, alone or after a
\* short sentence
LongTexts ==
  { begin \o Rep("a", n1) \o sep \o Rep("a", n2) \o end :
      begin \in { <<>>, <<"a", ".", " ">> },
      n1 \in LongWordLens, n2 \in LongWordLens,
      sep \in { <<" ">>, <<" ", "\n">> },
      end \in { <<>>, <<".">>, <<".", " ", "a">> } }

\* the text of the three-sentence scenario
ScenarioText ==
  << "B", "o", "n", "j", "o", "u", "r", ".", " ", "C", "o", "m",
     "m", "e", "n", "t", " ", "v", "a", "s", " ", "t", "u", " ",
     "a", "u", "j", "o", "u", "r", "d", "'", "h", "u", "i", "?",
     " ", "T", "r", "e", "s", " ", "b", "i", "e", "n", " ", "m",
     "e", "r", "c", "i", "." >>

ChunkTexts ==
  (UNION { [1..k -> ChunkAlphabet] : k \in 0..MaxTextLen }) \cup LongTexts
    \cup {ScenarioText}

InitChunk ==
  /\ sourceText \in ChunkTexts
  /\ synthEager = FALSE
  /\ InitRest
  /\ InitReader

\* const textChunks = chunkText(text); queueRef.current = textChunks.map(...)
chunkStep ==
  /\ step.kind = "init"
  /\ queue' = Shifted(chunkText(sourceText), 0)
  /\ step' = St("chunk", 0, {}, {})
  /\ UNCHANGED <<isSpeaking, isPaused, activeUtterance, sourceText, lastCharIndex,
                 lastSpeakOptions, progressTimer, envVars, session, nSessions, readerVars,
                 timerReport,
                 endCount, lastReport, lastCall>>

NextChunk == chunkStep

SpecChunk == InitChunk /\ [][NextChunk]_vars

(***************************************************************************)
(* The fallback timer on schedule: texts of one chunk, the interval        *)
(* callback every 180 ms, the backend never paused                         *)
(***************************************************************************)

\* the period of the progress interval, in milliseconds
IntervalMs == 180

\* runs of the interval callback in one behaviour
TimerTicks == 12

\* a text of one chunk of 100 characters
TimerText == Rep("a", 100)

\* the interval callback of utterance u runs, and IntervalMs pass until its
\* next run
interval(u) ==
  /\ u \in timers
  /\ now + IntervalMs <= TimeStep + TimerTicks * IntervalMs
  /\ timerCallback(u)
  /\ now' = now + IntervalMs
  /\ UNCHANGED <<timers, utt, nextUtt, synthQueue, synthBegun, synthPaused, synthEager,
                 events>>

\* the texts handed to speak(): the chunk of 100 characters and a short one
TimerTexts == {TimerText, Rep("a", 10)}

NextTimer ==
  \/ \E text \in TimerTexts, rate \in Rates : speak(text, rate)
  \/ stop
  \/ onstart
  \/ onboundary
  \/ onend
  \/ onerror
  \/ \E u \in UttIds : interval(u)
  \/ synthBegin
  \/ \E ci \in BoundaryIdx : synthBoundary(ci)
  \/ \E kind \in {"end", "error"} : synthFinish(kind)

SpecTimer == Init /\ [][NextTimer]_vars

(***************************************************************************)
(* SuperDocReader: the index kept across an edit (remapIndexAfterEdit)     *)
(***************************************************************************)

\* clamp that returns the value as it is
clampMut(value, min, max) == value

clamp(value, min, max) == Max(min, Min(max, value))

\* newText.indexOf(pattern): the first 0-based position at which pattern
\* occurs in text, -1 when it does not occur
IndexOf(text, pattern) ==
  LET hits == {i \in 0..(Len(text) - Len(pattern)) :
                 SubSeq(text, i + 1, i + Len(pattern)) = pattern}
  IN IF hits = {} THEN -1 ELSE CHOOSE i \in hits : \A j \in hits : i <= j

\* remapIndexAfterEdit whose last line does not clamp
remapIndexAfterEditMut(oldText, newText, oldIndex) ==
  LET anchorStart == clamp(oldIndex - 22, 0, Len(oldText))
      anchorEnd   == clamp(oldIndex + 22, 0, Len(oldText))
      anchor      == Trim(Slice(oldText, anchorStart, anchorEnd))
      anchorPos   == IndexOf(newText, anchor)
      relative    == oldIndex - anchorStart
      delta       == Len(newText) - Len(oldText)
  IN IF oldText = <<>> \/ newText = <<>> THEN 0
     ELSE IF oldText = newText THEN clamp(oldIndex, 0, Max(0, Len(newText) - 1))
     ELSE IF Len(anchor) >= 8 /\ anchorPos >= 0
          THEN clamp(anchorPos + relative, 0, Max(0, Len(newText) - 1))
          ELSE oldIndex + delta

remapIndexAfterEdit(oldText, newText, oldIndex) ==
  LET anchorStart == clamp(oldIndex - 22, 0, Len(oldText))
      anchorEnd   == clamp(oldIndex + 22, 0, Len(oldText))
      anchor      == Trim(Slice(oldText, anchorStart, anchorEnd))
      anchorPos   == IndexOf(newText, anchor)
      relative    == oldIndex - anchorStart
      delta       == Len(newText) - Len(oldText)
  IN IF oldText = <<>> \/ newText = <<>> THEN 0
     ELSE IF oldText = newText THEN clamp(oldIndex, 0, Max(0, Len(newText) - 1))
     ELSE IF Len(anchor) >= 8 /\ anchorPos >= 0
          THEN clamp(anchorPos + relative, 0, Max(0, Len(newText) - 1))
          ELSE clamp(oldIndex + delta, 0, Max(0, Len(newText) - 1))

\* which return of remapIndexAfterEdit a call takes
RemapPath(oldText, newText, oldIndex) ==
  LET anchorStart == clamp(oldIndex - 22, 0, Len(oldText))
      anchorEnd   == clamp(oldIndex + 22, 0, Len(oldText))
      anchor      == Trim(Slice(oldText, anchorStart, anchorEnd))
  IN IF oldText = <<>> \/ newText = <<>> THEN "remap-empty"
     ELSE IF oldText = newText THEN "remap-identity"
     ELSE IF Len(anchor) >= 8 /\ IndexOf(newText, anchor) >= 0 THEN "remap-anchor"
     ELSE "remap-delta"

RemapKinds == {"remap-empty", "remap-identity", "remap-anchor", "remap-delta"}

\* a document without a repeated character, one of a single repeated
\* character and one of two-letter words
DocDistinct ==
  << "a", "b", "c", "d", "e", "f", "g", "h", "i", "j",
     "k", "l", "m", "n", "o", "p", "q", "r", "s", "t",
     "u", "v", "w", "x", "y", "z", "0", "1", "2", "3" >>

\* length of the documents of the model
DocLen == Len(DocDistinct)

DocRepeated == Rep("a", DocLen)

DocWords == [i \in 1..DocLen |-> IF i % 3 = 0 THEN " " ELSE DocDistinct[i]]

Docs == {DocDistinct, DocRepeated, DocWords}

\* a short document of three words
DocShort == <<"a", "b", " ", "c", "d", " ", "e", "f">>

\* text with ins inserted at position p
Insert(text, p, ins) == SubSeq(text, 1, p) \o ins \o SubSeq(text, p + 1, Len(text))

\* text without its n characters from position p
Delete(text, p, n) == SubSeq(text, 1, p) \o SubSeq(text, p + n + 1, Len(text))

\* what the user types
Typed == { <<"#">>, <<"#", " ">>, <<"a", "a">> }

\* where the user edits
EditPositions == {0, 1, 2, 3, 4, 15, DocLen}

\* the texts before an edit
OldTexts == Docs \cup { <<>>, <<"a", "b">>, DocShort }

\* the texts an edit of oldText can leave
NewTexts(oldText) ==
  OldTexts
    \cup { Insert(oldText, p, ins) :
              p \in {q \in EditPositions \cup {Len(oldText)} : q <= Len(oldText)},
              ins \in Typed }
    \cup { Delete(oldText, p, 2) : p \in {q \in EditPositions : q + 2 <= Len(oldText)} }

\* the indices handed to remapIndexAfterEdit
OldIndices == (-2)..(DocLen + 2)

InitRemap ==
  /\ sourceText = <<>>
  /\ synthEager = FALSE
  /\ InitRest
  /\ editorText \in OldTexts
  /\ pausedIndex \in OldIndices
  /\ currentCharIndex = 0
  /\ pausedByEdit = FALSE
  /\ programmaticSelection = FALSE
  /\ readerCall = "none"
  /\ InitPdf

\* pausedIndexRef.current = remapIndexAfterEdit(oldText, nextText,
\* pausedIndexRef.current); editorTextRef.current = nextText
remapStep(nextText) ==
  /\ step.kind = "init"
  /\ pausedIndex' = remapIndexAfterEdit(editorText, nextText, pausedIndex)
  /\ editorText' = nextText
  /\ step' = St(RemapPath(editorText, nextText, pausedIndex), 0, {}, {})
  /\ UNCHANGED <<hookVars, envVars, session, nSessions, endCount, lastReport, lastCall,
                 timerReport, currentCharIndex, pausedByEdit,
                 programmaticSelection, readerCall, pdfVars>>

NextRemap == \E nextText \in NewTexts(editorText) : remapStep(nextText)

SpecRemap == InitRemap /\ [][NextRemap]_vars

(***************************************************************************)
(* Properties                                                              *)
(***************************************************************************)

\* the steps that run a handler of an utterance's closure
ClosureKinds == {"start", "boundary", "pause-event", "resume-event", "end", "error", "tick"}

\* the refs the claims call queue and session state
sessionRefs == <<queue, activeUtterance, sourceText, lastCharIndex, lastSpeakOptions>>

\* C1: between a speak() and the next speak() or stop(), every index passed
\* to onBoundary is at least the index passed before it, whichever handler
\* (start, boundary, end, timer tick) reports it.
C1_ReportsNonDecreasing ==
  [][("boundary" \in step'.cb /\ lastReport # -1) => lastReport' >= lastReport]_vars

\* C1 witness: a boundary event arrived after a higher index had been
\* reported, and was not reported.
C1_Witness ==
  step.kind = "boundary" /\ step.cb = {} /\ lastReport >= 1

\* C2 (as claimed): a handler that belongs to another speak() call than the
\* one in force (none after stop) invokes no callback, submits nothing, and
\* leaves the queue and lastCharIndex alone.
C2_StaleHandlersSuppressed ==
  [][(step'.kind \in ClosureKinds /\ step'.sid # session)
       => (step'.cb = {} /\ step'.calls = {} /\ UNCHANGED <<queue, lastCharIndex>>)]_vars

\* C3 (as claimed): the onEnd of a speak() call is invoked at most once, and
\* when it is invoked the status is Idle and no utterance is active.
C3_OnEndAtMostOnce ==
  /\ \A s \in SessionIds : endCount[s] <= 1
  /\ "end" \in step.cb => (~isSpeaking /\ ~isPaused /\ activeUtterance = 0)

\* C4 (as claimed): at most one utterance submitted by the hook is in the
\* backend, neither ended, failed nor cancelled.
C4_OneUtteranceOutstanding == Len(synthQueue) <= 1

\* the state stop() is claimed to leave
Stopped ==
  /\ queue = <<>>
  /\ activeUtterance = 0
  /\ sourceText = <<>>
  /\ lastSpeakOptions = NoOptions
  /\ lastCharIndex = 0
  /\ timers = {}
  /\ synthQueue = <<>>
  /\ ~isSpeaking
  /\ ~isPaused

\* C5 (as claimed): stop() leaves the engine reset and Idle, and until the
\* next speak() no backend event and no timer tick changes lastCharIndex or
\* the status.
C5_StopResetsAndPersists ==
  /\ [](step.kind = "stop" => Stopped)
  /\ [][(session = 0 /\ step'.kind \in ClosureKinds)
          => (lastCharIndex' = 0 /\ UNCHANGED <<isSpeaking, isPaused>>)]_vars

C8_ResumeNoopWhenNotPaused ==
  [][(/\ step'.kind = "resume"
      /\ ~synthPaused /\ ~isPaused /\ ~isSpeaking
      /\ synthQueue = <<>> /\ events = <<>> /\ activeUtterance = 0
      /\ session # 0 /\ endCount[session] >= 1)
       => (step'.calls = {} /\ UNCHANGED <<isSpeaking, isPaused, queue, lastCharIndex>>)]_vars

\* C9: speak() with a text of whitespace only (or empty) makes no backend
\* call, invokes no callback and changes nothing, also while a session plays.
C9_BlankSpeakIsNoop ==
  [][step'.kind = "speakBlank"
       => (step'.calls = {} /\ step'.cb = {} /\ UNCHANGED <<hookVars, envVars>>)]_vars

\* C9 witness: speak() with blank text was called while an utterance plays.
C9_Witness ==
  step.kind = "speakBlank" /\ synthSpeaking /\ isSpeaking /\ activeUtterance # 0

\* C10 (as claimed): the chunk texts joined by single spaces are the
\* whitespace-normalized input.
C10_JoinIsNormalized ==
  step.kind = "chunk" => JoinChunks(queue) = Normalize(sourceText)

\* C11 (as claimed): every chunk chunkText returns has a non-empty text of
\* at most MAX_CHUNK_LENGTH characters, also for a text with a single word
\* longer than the limit.
C11_ChunkLengthBounded ==
  step.kind = "chunk"
    => \A i \in 1..Len(queue) :
         Len(queue[i].text) > 0 /\ Len(queue[i].text) <= MAX_CHUNK_LENGTH

\* C12: in the sequence chunkText returns, each chunk ends (start plus
\* length of text) at or before the start of the next one, so the starts
\* strictly increase and the spans do not overlap.
C12_SpansDoNotOverlap ==
  step.kind = "chunk"
    => \A i \in 1..(Len(queue) - 1) :
         queue[i].start + Len(queue[i].text) <= queue[i + 1].start

\* C12 witness: a text whose second sentence was split into several chunks.
C12_Witness ==
  /\ step.kind = "chunk"
  /\ Len(queue) >= 3
  /\ Len(queue[1].text) = 2
  /\ Len(queue[2].text) > MAX_CHUNK_LENGTH \div 2

\* the start offsets of the chunks in the queue
Starts == [i \in 1..Len(queue) |-> queue[i].start]

\* C13 (as claimed): the three-sentence scenario text gives 3 chunks that
\* start at 0, 9 and 38.
C13_ScenarioStarts ==
  (step.kind = "chunk" /\ sourceText = ScenarioText) => Starts = <<0, 9, 38>>

\* C13 (amended): the three-sentence scenario text gives 3 chunks that
\* start at 0, 9 and 37.
C13_ScenarioStartsAt37 ==
  (step.kind = "chunk" /\ sourceText = ScenarioText) => Starts = <<0, 9, 37>>

\* C13 witness: the scenario text has been chunked into three chunks.
C13_Witness ==
  step.kind = "chunk" /\ sourceText = ScenarioText /\ Len(queue) = 3

\* C14: remapIndexAfterEdit(text, text, i) is i clamped to
\* [0, max(0, text.length - 1)], for every text and every integer i.
C14_IdentityOnUnchangedText ==
  [][(step'.kind \in RemapKinds /\ editorText' = editorText)
       => pausedIndex' = Max(0, Min(pausedIndex, Max(0, Len(editorText) - 1)))]_vars

\* C14 witness: an index at or past the end of an unchanged document was
\* remapped to the document's last index.
C14_Witness ==
  /\ step.kind = "remap-identity"
  /\ editorText = DocWords
  /\ pausedIndex = DocLen - 1

\* C15: for every old text, every non-empty new text and every integer old
\* index, negative and past the end included, remapIndexAfterEdit returns r
\* with 0 <= r < newText.length, on each of its paths.
C15_ResultWithinNewText ==
  [][(step'.kind \in RemapKinds /\ editorText' # <<>>)
       => (0 <= pausedIndex' /\ pausedIndex' < Len(editorText'))]_vars

\* C15 witness: the delta-shift path, after a deletion, returned the last
\* index of the new text.
C15_Witness ==
  /\ step.kind = "remap-delta"
  /\ Len(editorText) = DocLen - 2
  /\ pausedIndex = Len(editorText) - 1

\* new is old with characters inserted at position p
IsInsertionAt(old, new, p) ==
  /\ Len(new) > Len(old)
  /\ p \in 0..Len(old)
  /\ new = Insert(old, p, SubSeq(new, p + 1, p + Len(new) - Len(old)))

\* C16 (as claimed): when the new text is the old text with n characters
\* inserted at a position below oldIndex - 22, remapIndexAfterEdit returns
\* oldIndex + n, for every old text (oldIndex within the old text).
C16_InsertionBeforeAnchorShifts ==
  [][(/\ step'.kind \in RemapKinds
      /\ 0 <= pausedIndex /\ pausedIndex < Len(editorText)
      /\ \E p \in 0..Len(editorText) :
           p < pausedIndex - 22 /\ IsInsertionAt(editorText, editorText', p))
       => pausedIndex' = pausedIndex + (Len(editorText') - Len(editorText))]_vars

\* utterance u has been spoken since its start event, and the backend has
\* fired no boundary event of it
SpokenWithoutBoundary(u) ==
  /\ synthQueue # <<>>
  /\ Head(synthQueue) = u
  /\ synthBegun
  /\ ~synthPaused
  /\ utt[u].startedAt > 0
  /\ utt[u].lastBoundaryAt = utt[u].startedAt
  /\ \A i \in 1..Len(events) : events[i].u # u

\* C17 (as claimed): when a chunk of 100 characters started at rate 1.0 has
\* been spoken for 2 seconds, the backend unpaused and without a boundary
\* event, the fallback timer has reported an index above the chunk's start.
C17_FallbackReportsWithinTwoSeconds ==
  \A u \in UttIds :
    (/\ SpokenWithoutBoundary(u)
     /\ Len(utt[u].chunk.text) = 100
     /\ utt[u].rate = 100
     /\ now - utt[u].startedAt >= 2000)
      => timerReport > utt[u].chunk.start

\* the chunk end of utterance u: what emitProgress(next.text.length - 1)
\* reports at the least
ChunkEnd(u) == AbsoluteIndex(utt[u].chunk, Len(utt[u].chunk.text) - 1)

\* C18 (as claimed): the handler of an error on the active utterance does
\* what the handler of its end does: it clears the timer, dequeues and
\* submits the next chunk (or ends the session when none is left) and makes
\* the same progress report, so that lastCharIndex is at least the chunk end.
C18_ErrorHandledAsEnd ==
  [][(step'.kind \in {"end", "error"} /\ activeUtterance = EvU)
       => (/\ progressTimer' = 0
           /\ timers' = {}
           /\ IF queue = <<>>
              THEN "end" \in step'.cb /\ step'.calls = {}
              ELSE queue' = Tail(queue) /\ step'.calls = {"speak"}
           /\ lastCharIndex' >= ChunkEnd(EvU))]_vars

\* the observable status
Status ==
  IF isPaused THEN "Paused" ELSE IF isSpeaking THEN "Speaking" ELSE "Idle"

\* the transitions of the status the state machine has
StatusEdges ==
  { <<"Idle", "Speaking">>, <<"Speaking", "Paused">>, <<"Speaking", "Idle">>,
    <<"Paused", "Speaking">>, <<"Paused", "Idle">> }

\* C19 (as claimed): the status is Idle initially and changes only along
\* Idle->Speaking, Speaking->Paused, Speaking->Idle, Paused->Speaking and
\* Paused->Idle; never from Idle directly to Paused.
C19_StatusTransitions ==
  /\ Status = "Idle"
  /\ [][Status' # Status => <<Status, Status'>> \in StatusEdges]_vars

\* C20: chunks reach the backend in the order chunkText produced them, each
\* once: speak() and a restarting resume() submit the first chunk of their
\* chunking and queue the rest; every end or error handler that finds the
\* queue non-empty removes exactly its head and submits that chunk behind
\* the utterances already in the backend; nothing else takes a chunk out of
\* the queue except stop(), which empties it.
C20_ChunksSubmittedInOrder ==
  [][/\ step'.kind = "speak"
          => LET plan == Shifted(chunkText(sourceText'), 0)
             IN /\ utt'[nextUtt'].chunk = Head(plan)
                /\ queue' = Tail(plan)
                /\ synthQueue' = <<nextUtt'>>
     /\ (step'.kind = "resume" /\ "speak" \in step'.calls)
          => LET plan == Shifted(chunkText(SliceFrom(sourceText, lastCharIndex)),
                                 lastCharIndex)
             IN /\ utt'[nextUtt'].chunk = Head(plan)
                /\ queue' = Tail(plan)
                /\ synthQueue' = <<nextUtt'>>
     /\ (step'.kind \in {"end", "error"} /\ queue # <<>>)
          => /\ nextUtt' = nextUtt + 1
             /\ utt'[nextUtt'].chunk = Head(queue)
             /\ queue' = Tail(queue)
             /\ synthQueue' = Append(synthQueue, nextUtt')
     /\ (step'.kind \in {"end", "error"} /\ queue = <<>>)
          => UNCHANGED <<queue, synthQueue, nextUtt>>
     /\ queue' # queue
          => (step'.kind \in {"speak", "resume", "end", "error"}
                \/ (step'.kind = "stop" /\ queue' = <<>>))]_vars

\* C20 witness: after an error on the first chunk of a session the second
\* chunk has been submitted, and the queue is empty.
C20_Witness ==
  /\ step.kind = "error"
  /\ step.calls = {"speak"}
  /\ step.sid = session
  /\ queue = <<>>
  /\ activeUtterance # 0
  /\ utt[activeUtterance].chunk.start = 4
  /\ synthQueue = <<activeUtterance>>

\* C21: at every moment at most one progress interval timer is live, and it
\* is the one progressTimerRef holds: the ref is null exactly when no timer
\* is live; a step that sets a timer leaves that timer as the only live one.
C21_OneLiveTimer ==
  /\ [](/\ Cardinality(timers) <= 1
        /\ timers = IF progressTimer = 0 THEN {} ELSE {progressTimer})
  /\ [][(progressTimer' # 0 /\ progressTimer' # progressTimer)
          => (step'.kind = "start" /\ timers' = {progressTimer'})]_vars

\* the timer set on the start of a second utterance is the only live one
C21_Witness ==
  /\ step.kind = "start"
  /\ progressTimer = 2
  /\ timers = {2}
  /\ utt[2].startedAt > 0

\* C22: the progress timer of a session is cancelled before the session is
\* ended or replaced: after stop(), after a new speak() and after the onend
\* that empties the queue no timer of the previous session is live, and a
\* timer callback reports an index to the session in force only.
C22_TimerCancelledWithSession ==
  [][/\ step'.kind = "stop" => timers' = {}
     /\ step'.kind = "speak" => \A u \in timers' : utt'[u].sid = session'
     /\ (step'.kind = "end" /\ "end" \in step'.cb) => timers' = {}
     /\ (step'.kind = "tick" /\ "boundary" \in step'.cb) => step'.sid = session']_vars

\* C23: the handler of the start event of a chunk invokes onBoundary with
\* the chunk's start offset, and it does so before the chunk's timer, which
\* it has just set, has reported anything.
C23_StartReportsChunkStart ==
  [][step'.kind = "start"
       => /\ "boundary" \in step'.cb
          /\ lastReport' = utt[EvU].chunk.start
          /\ timerReport' = -1]_vars

\* C24: when the handler of a chunk's end event has run, lastCharIndexRef is
\* chunk.start + chunk.text.length - 1, and the handler has passed that index
\* to onBoundary unless it was the last index already; the next chunk is
\* taken from the queue with that index in place.
C24_EndReportsChunkEnd ==
  [][step'.kind = "end"
       => LET last == utt[EvU].chunk.start + Len(utt[EvU].chunk.text) - 1
          IN /\ lastCharIndex' = last
             /\ lastCharIndex # last => ("boundary" \in step'.cb /\ lastReport' = last)
             /\ queue # <<>> => utt'[activeUtterance'].chunk = Head(queue)]_vars

\* C25: every index a handler passes to onBoundary lies within the chunk of
\* the utterance whose event or timer callback produced it, from chunk.start
\* to chunk.start + chunk.text.length - 1, whatever charIndex the backend
\* delivers and whatever index the timer extrapolates.
C25_ReportsWithinChunk ==
  [][(step'.kind \in {"start", "boundary", "end", "tick"} /\ "boundary" \in step'.cb)
       => LET u == IF step'.kind = "tick" THEN progressTimer ELSE EvU
              c == utt[u].chunk
          IN /\ c.start <= lastReport'
             /\ lastReport' <= c.start + Len(c.text) - 1]_vars

\* a timer callback has extrapolated an index past the end of its chunk and
\* reported the chunk's last index
C25_Witness ==
  /\ step.kind = "tick"
  /\ "boundary" \in step.cb
  /\ progressTimer # 0
  /\ Estimated(progressTimer, now) > Len(utt[progressTimer].chunk.text) - 1
  /\ lastReport = utt[progressTimer].chunk.start + Len(utt[progressTimer].chunk.text) - 1

\* C26: a callback of the progress timer passes an index to onBoundary only
\* if the backend is speaking and not paused and at least 500 ms have passed
\* since the handler of the chunk's start or of its latest boundary event
\* ran; while the backend is paused, or within those 500 ms, the callback
\* reports nothing and changes nothing.
C26_TickOnlyAfterSilence ==
  [][/\ (step'.kind \in {"start", "boundary"} /\ EvU \in timers')
          => utt'[EvU].lastBoundaryAt = now
     /\ step'.kind = "tick"
          => /\ "boundary" \in step'.cb
                  => /\ synthSpeaking
                     /\ ~synthPaused
                     /\ now - utt[progressTimer].lastBoundaryAt >= 500
             /\ (synthPaused \/ now - utt[progressTimer].lastBoundaryAt < 500)
                  => /\ step'.cb = {}
                     /\ UNCHANGED <<hookVars, envVars, lastReport, timerReport>>]_vars

\* a callback of the timer has run while the backend was paused, more than
\* 500 ms after the chunk's start, and has reported nothing
C26_Witness ==
  /\ step.kind = "tick"
  /\ step.cb = {}
  /\ synthPaused
  /\ synthSpeaking
  /\ progressTimer # 0
  /\ utt[progressTimer].startedAt > 0
  /\ now - utt[progressTimer].lastBoundaryAt >= 500

\* the time utterance u has been paused since its start, as its pause and
\* resume events tell: the pauses ended by a resume event and the pause that
\* a pause event has begun and no resume event has ended yet
PausedTime(u) ==
  utt[u].pausedDuration + (IF utt[u].pausedAt > 0 THEN now - utt[u].pausedAt ELSE 0)

\* C27: the index a callback of the progress timer reports is the chunk's
\* start plus floor((now - start time - time paused) / 1000 * 11 * rate),
\* clamped to the chunk: no time between a pause event of the chunk and the
\* resume event that follows it counts as time spoken.
C27_EstimateExcludesPausedTime ==
  [][(step'.kind = "tick" /\ "boundary" \in step'.cb)
       => LET u == progressTimer
              spoken == now - utt[u].startedAt - PausedTime(u)
              offset == (spoken * 11 * utt[u].rate) \div 100000
          IN lastReport' = AbsoluteIndex(utt[u].chunk, offset)]_vars

\* C28: every chunk of chunkText(text) is the piece of the normalized text
\* that begins at the chunk's start and has the chunk's length, for the
\* sentence chunks and for the sub-chunks of a sentence split by words.
C28_ChunkIsSliceAtStart ==
  step.kind = "chunk"
    => \A i \in 1..Len(queue) :
         Slice(Normalize(sourceText), queue[i].start,
               queue[i].start + Len(queue[i].text)) = queue[i].text

\* the window of remapIndexAfterEdit around oldIndex: its start and its
\* trimmed text
AnchorStart(oldText, oldIndex) == clamp(oldIndex - 22, 0, Len(oldText))

Anchor(oldText, oldIndex) ==
  Trim(Slice(oldText, AnchorStart(oldText, oldIndex), clamp(oldIndex + 22, 0, Len(oldText))))

\* the number of characters of s that are not whitespace
NonSpace(s) == Cardinality({i \in 1..Len(s) : s[i] \notin WhiteSpace})

\* C29: past its two early returns, remapIndexAfterEdit takes the anchor
\* path exactly when the trimmed window around oldIndex has at least 8
\* non-space characters and occurs in newText; its result is then the first
\* position of the anchor in newText plus oldIndex minus the window's start,
\* clamped to newText.
C29_AnchorPath ==
  [][(step'.kind \in {"remap-anchor", "remap-delta"})
       => LET anchor == Anchor(editorText, pausedIndex)
              pos    == IndexOf(editorText', anchor)
          IN /\ step'.kind = "remap-anchor" <=> (NonSpace(anchor) >= 8 /\ pos >= 0)
             /\ step'.kind = "remap-anchor"
                  => pausedIndex' = clamp(pos + pausedIndex - AnchorStart(editorText, pausedIndex),
                                          0, Max(0, Len(editorText') - 1))]_vars

\* C30: when the trimmed window around oldIndex is too short or does not
\* occur in newText, remapIndexAfterEdit returns oldIndex plus the change of
\* the text's length, clamped to newText; every call returns an index.
C30_DeltaFallback ==
  [][(/\ step'.kind \in RemapKinds
      /\ \/ Len(Anchor(editorText, pausedIndex)) < 8
         \/ IndexOf(editorText', Anchor(editorText, pausedIndex)) < 0)
       => pausedIndex' = clamp(pausedIndex + (Len(editorText') - Len(editorText)),
                               0, Max(0, Len(editorText') - 1))]_vars

\* C30, amended: the same for a call whose oldText is not empty; with an
\* empty oldText the result is 0.
C30_DeltaFallbackNonEmpty ==
  [][(/\ step'.kind \in RemapKinds
      /\ \/ Len(Anchor(editorText, pausedIndex)) < 8
         \/ IndexOf(editorText', Anchor(editorText, pausedIndex)) < 0)
       => pausedIndex' = IF editorText = <<>> THEN 0
                         ELSE clamp(pausedIndex + (Len(editorText') - Len(editorText)),
                                    0, Max(0, Len(editorText') - 1))]_vars

\* the index 1 of 'ab' after '#' is typed at its beginning: the anchor 'ab'
\* is too short and the index moves by the one character typed
C30_Witness ==
  /\ step.kind = "remap-delta"
  /\ editorText = <<"#", "a", "b">>
  /\ pausedIndex = 2

\* the number of positions at which pattern occurs in text
Occurrences(text, pattern) ==
  Cardinality({i \in 0..(Len(text) - Len(pattern)) :
                 SubSeq(text, i + 1, i + Len(pattern)) = pattern})

\* new is old after an insertion or a deletion that leaves the characters of
\* old from position from up to position to where they were in the text
EditOutside(old, new, from, to) ==
  \/ \E p \in 0..Len(old) : (p <= from \/ p >= to) /\ IsInsertionAt(old, new, p)
  \/ \E p \in 0..Len(old), n \in 1..Len(old) :
        /\ p + n <= Len(old)
        /\ (p + n <= from \/ p >= to)
        /\ new = Delete(old, p, n)

\* C31: when an edit leaves the window around oldIndex untouched and the
\* anchor occurs once in newText, the index returned on the anchor path
\* points at the character oldIndex pointed at, also when the window begins
\* with whitespace that trim() removes.
C31_AnchorKeepsCharacter ==
  [][(/\ step'.kind = "remap-anchor"
      /\ 0 <= pausedIndex
      /\ pausedIndex < Len(editorText)
      /\ Occurrences(editorText', Anchor(editorText, pausedIndex)) = 1
      /\ EditOutside(editorText, editorText', AnchorStart(editorText, pausedIndex),
                     clamp(pausedIndex + 22, 0, Len(editorText))))
       => editorText'[pausedIndex' + 1] = editorText[pausedIndex + 1]]_vars

\* resume() finds the backend neither paused nor speaking and a source
\* text, options and an index before the text's last character stored
RestartDue ==
  /\ ~synthPaused
  /\ ~synthSpeaking
  /\ lastSpeakOptions # NoOptions
  /\ sourceText # <<>>
  /\ lastCharIndex < Len(sourceText) - 1

\* the queue a restart from lastCharIndexRef.current is to build
RestartPlan == Shifted(chunkText(SliceFrom(sourceText, lastCharIndex)), lastCharIndex)

\* every chunk of plan is the piece of text at the chunk's start
OffsetsInto(text, plan) ==
  \A i \in 1..Len(plan) :
    Slice(text, plan[i].start, plan[i].start + Len(plan[i].text)) = plan[i].text

\* C32: resume() with the backend neither paused nor speaking, a stored
\* text, stored options and lastCharIndexRef = k before the text's last
\* character cancels the backend and starts the queue of sourceText.slice(k)
\* with the starts shifted by k, without resetting lastCharIndexRef; the
\* starts are offsets into the source text, and every index reported from
\* then on is at least k.
C32_ResumeRestartsFromIndex ==
  [][/\ (step'.kind = "resume" /\ RestartDue)
          => /\ "cancel" \in step'.calls
             /\ lastCharIndex' = lastCharIndex
             /\ sourceText' = sourceText
             /\ OffsetsInto(sourceText, RestartPlan)
             /\ RestartPlan # <<>>
                  => /\ utt'[nextUtt'].chunk = Head(RestartPlan)
                     /\ queue' = Tail(RestartPlan)
                     /\ synthQueue' = <<nextUtt'>>
     /\ (step'.kind \notin {"speak", "stop"} /\ "boundary" \in step'.cb)
          => lastReport' >= lastCharIndex]_vars

\* every chunk of the queue can be submitted within the MaxUtt utterances of
\* a run
QueueFits == nextUtt + Len(queue) <= MaxUtt

\* C33: speak() with a non-blank text, from any status, cancels the backend,
\* sets lastCharIndexRef to 0, submits the first chunk of the text and
\* queues the others; once the caller has made its last speak(), the
\* handler of the first chunk's start event eventually runs and the status
\* is Speaking.
C33_SpeakLeadsToSpeaking ==
  /\ [][step'.kind = "speak"
          => LET plan == Shifted(chunkText(sourceText'), 0)
             IN /\ "cancel" \in step'.calls
                /\ lastCharIndex' = 0
                /\ utt'[nextUtt'].chunk = Head(plan)
                /\ queue' = Tail(plan)
                /\ synthQueue' = <<nextUtt'>>]_vars
  /\ (step.kind = "speak" /\ LastSpeakMade /\ QueueFits)
       ~> (step.kind = "start" /\ step.sid = session /\ Status = "Speaking")

\* the session in force is over: nothing queued, in the hook or in the
\* backend, no timer, its onEnd invoked, the status Idle
Terminated ==
  /\ queue = <<>>
  /\ synthQueue = <<>>
  /\ events = <<>>
  /\ timers = {}
  /\ progressTimer = 0
  /\ session # 0
  /\ endCount[session] >= 1
  /\ Status = "Idle"

ReaderDoc == <<"a", "b", " ", "c", "d">>

\* the texts an editor update can bring: the same text (a selection change) or
\* the text after a keystroke, up to two keystrokes
ReaderEdits(text) ==
  {text} \cup (IF Len(text) < Len(ReaderDoc) + 2 THEN {Insert(text, 0, <<"#">>)} ELSE {})

InitDoc ==
  /\ sourceText = <<>>
  /\ synthEager \in BOOLEAN
  /\ InitRest
  /\ editorText = ReaderDoc
  /\ pausedIndex = 0
  /\ currentCharIndex = 0
  /\ pausedByEdit = FALSE
  /\ programmaticSelection = FALSE
  /\ readerCall = "none"
  /\ InitPdf

\* a handler of the reader that returns before it calls the hook
readerReturns(call) ==
  /\ step' = St(call, 0, {}, {})
  /\ UNCHANGED <<hookVars, envVars, session, nSessions, endCount, lastReport, lastCall,
                 timerReport>>

\* readFromIndex(startIndex), called by the handler call
readFromIndex(startIndex, call) ==
  LET safeStart == clamp(startIndex, 0, Max(0, Len(editorText) - 1))
      textToSpeak == SliceFrom(editorText, safeStart)
  IN /\ readerCall' = call
     /\ UNCHANGED pdfVars
     /\ IF IsBlank(editorText) \/ IsBlank(textToSpeak)
        THEN /\ readerReturns("read")
             /\ UNCHANGED <<editorText, pausedIndex, currentCharIndex, pausedByEdit,
                            programmaticSelection>>
        ELSE /\ currentCharIndex' = safeStart
             /\ pausedByEdit' = FALSE
             /\ speakCall(textToSpeak, 95, safeStart)
             /\ UNCHANGED <<editorText, pausedIndex, programmaticSelection>>

\* the button "Lire"
handlePlay == readFromIndex(currentCharIndex, "play")

\* the button "Lire depuis curseur", the cursor at offset startIndex
readFromCursor(startIndex) == readFromIndex(startIndex, "cursor")

\* the button "Pause": onClick={pause}, disabled={!isSpeaking || pausedByEdit}
handlePause ==
  /\ isSpeaking /\ ~pausedByEdit
  /\ pauseCall
  /\ readerCall' = "pause"
  /\ UNCHANGED pdfVars
  /\ UNCHANGED <<editorText, pausedIndex, currentCharIndex, pausedByEdit,
                 programmaticSelection>>

\* the button "Reprendre": disabled={!isPaused && !pausedByEdit}
handleResume ==
  /\ isPaused \/ pausedByEdit
  /\ IF pausedByEdit
     THEN readFromIndex(pausedIndex, "resume")
     ELSE /\ resumeCall
          /\ readerCall' = "resume"
          /\ UNCHANGED pdfVars
          /\ UNCHANGED <<editorText, pausedIndex, currentCharIndex, pausedByEdit,
                         programmaticSelection>>

\* the button "Arreter": disabled={!isSpeaking && !isPaused && !pausedByEdit}
handleStop ==
  /\ isSpeaking \/ isPaused \/ pausedByEdit
  /\ stopCall
  /\ pausedByEdit' = FALSE
  /\ pausedIndex' = 0
  /\ currentCharIndex' = 0
  /\ readerCall' = "stop"
  /\ UNCHANGED pdfVars
  /\ UNCHANGED <<editorText, programmaticSelection>>

\* handleEditorUpdate, the editor's text being nextText
handleEditorUpdate(nextText) ==
  LET oldText == editorText
      textChanged == nextText # oldText
  IN /\ editorText' = nextText
     /\ readerCall' = "edit"
     /\ UNCHANGED pdfVars
     /\ UNCHANGED <<currentCharIndex, programmaticSelection>>
     /\ IF programmaticSelection
        THEN /\ readerReturns("edit")
             /\ UNCHANGED <<pausedIndex, pausedByEdit>>
        ELSE IF textChanged /\ isSpeaking /\ ~isPaused
        THEN /\ pausedIndex' = remapIndexAfterEdit(oldText, nextText, currentCharIndex)
             /\ pausedByEdit' = TRUE
             /\ pauseCall
        ELSE IF textChanged /\ pausedByEdit
        THEN /\ pausedIndex' = remapIndexAfterEdit(oldText, nextText, pausedIndex)
             /\ readerReturns("edit")
             /\ UNCHANGED pausedByEdit
        ELSE /\ readerReturns("edit")
             /\ UNCHANGED <<pausedIndex, pausedByEdit>>

\* the timeout of pushEditorSelection: programmaticSelectionRef.current = false
selectionTimeout ==
  /\ programmaticSelection
  /\ programmaticSelection' = FALSE
  /\ readerReturns("timeout")
  /\ UNCHANGED <<editorText, pausedIndex, currentCharIndex, pausedByEdit, readerCall,
                 pdfVars>>

NextDoc ==
  \/ handlePlay
  \/ \E startIndex \in {3} : readFromCursor(startIndex)
  \/ handlePause
  \/ handleResume
  \/ handleStop
  \/ \E nextText \in ReaderEdits(editorText) : handleEditorUpdate(nextText)
  \/ selectionTimeout
  \/ syncState
  \/ onstart
  \/ onpause
  \/ onresume
  \/ onboundary
  \/ onend
  \/ onerror
  \/ synthBegin
  \/ \E ci \in BoundaryIdx : synthBoundary(ci)
  \/ \E kind \in {"end", "error"} : synthFinish(kind)

SpecDoc == InitDoc /\ [][NextDoc]_vars

\* C35: an editor update that changes the text while isSpeaking and not isPaused
\* sets the pending-edit state (pausedByEdit, pausedIndex re-mapped from
\* currentCharIndex, the backend paused), and nothing else sets pausedByEdit; a text
\* change while pausedByEdit re-maps pausedIndex from its previous value; "Arreter"
\* clears pausedByEdit; "Reprendre" while pausedByEdit, when it restarts reading,
\* clears it and starts a new speak() call on the text from pausedIndex, with no
\* native resume
C35_PendingEditState ==
  /\ [][(editorText' # editorText /\ isSpeaking /\ ~isPaused)
          => (/\ pausedByEdit'
              /\ pausedIndex' = remapIndexAfterEdit(editorText, editorText', currentCharIndex)
              /\ synthPaused')]_vars
  /\ [][(~pausedByEdit /\ pausedByEdit')
          => (editorText' # editorText /\ isSpeaking /\ ~isPaused)]_vars
  /\ [][(editorText' # editorText /\ pausedByEdit)
          => (/\ pausedByEdit'
              /\ pausedIndex' = remapIndexAfterEdit(editorText, editorText', pausedIndex))]_vars
  /\ [][(readerCall' = "stop" /\ step'.kind = "stop") => ~pausedByEdit']_vars
  /\ [][(pausedByEdit /\ readerCall' = "resume" /\ step'.kind = "speak")
          => LET safeStart == clamp(pausedIndex, 0, Max(0, Len(editorText) - 1))
             IN /\ ~pausedByEdit'
                /\ session' # session
                /\ "resume" \notin step'.calls
                /\ sourceText' = SliceFrom(editorText, safeStart)
                /\ lastSpeakOptions'.safeStart = safeStart
                /\ currentCharIndex' = safeStart]_vars

\* C39: once reading is started from document index k, every value onBoundary stores
\* in currentCharIndex is at least k and, while the text is the one that was read,
\* is the document offset of the character of the utterance that is reported
C39_IndexIsDocumentOffset ==
  [][(/\ step'.kind \in {"start", "boundary"}
      /\ "boundary" \in step'.cb
      /\ session # 0
      /\ step'.sid = session
      /\ lastSpeakOptions.safeStart # NoStart)
       => LET k == lastSpeakOptions.safeStart
              chunk == utt[EvU].chunk
          IN /\ currentCharIndex' >= k
             /\ sourceText = SliceFrom(editorText, k)
                  => editorText[currentCharIndex' + 1]
                       = chunk.text[lastReport' - chunk.start + 1]]_vars

\* C38: isSpeaking and isPaused are never both true
C38_NotSpeakingAndPaused == ~(isSpeaking /\ isPaused)

\* the handler of a pause event has run on a hook that showed Speaking
C38_Witness ==
  /\ step.kind = "pause-event"
  /\ isPaused
  /\ ~isSpeaking
  /\ synthPaused

(***************************************************************************)
(* PdfReader: normalizeWithMap                                             *)
(***************************************************************************)

\* the loop of normalizeWithMap from the 0-based index i on, acc holding normalized,
\* indexMap and previousWasSpace
RECURSIVE NormalizeLoop(_, _, _)
NormalizeLoop(input, i, acc) ==
  IF ~(i < Len(input)) THEN acc
  ELSE LET char == input[i + 1]
           isSpace == char \in WhiteSpace
       IN IF isSpace
          THEN IF ~acc.previousWasSpace
               THEN NormalizeLoop(input, i + 1,
                                  [normalized |-> acc.normalized \o <<" ">>,
                                   indexMap |-> Append(acc.indexMap, i),
                                   previousWasSpace |-> TRUE])
               ELSE NormalizeLoop(input, i + 1, acc)
          ELSE NormalizeLoop(input, i + 1,
                             [normalized |-> Append(acc.normalized, char),
                              indexMap |-> Append(acc.indexMap, i),
                              previousWasSpace |-> FALSE])

\* normalizeWithMap that keeps the space a trailing run of whitespace gives
normalizeWithMapMut(input) ==
  LET acc == NormalizeLoop(input, 0, [normalized |-> <<>>, indexMap |-> <<>>,
                                      previousWasSpace |-> TRUE])
  IN [normalized |-> acc.normalized, indexMap |-> acc.indexMap]

normalizeWithMap(input) ==
  LET acc == NormalizeLoop(input, 0, [normalized |-> <<>>, indexMap |-> <<>>,
                                      previousWasSpace |-> TRUE])
      n == Len(acc.normalized)
  IN IF n > 0 /\ acc.normalized[n] = " "
     THEN [normalized |-> SubSeq(acc.normalized, 1, n - 1),
           indexMap |-> SubSeq(acc.indexMap, 1, n - 1)]
     ELSE [normalized |-> acc.normalized, indexMap |-> acc.indexMap]

InitNorm ==
  /\ sourceText = <<>>
  /\ synthEager = FALSE
  /\ InitRest
  /\ editorText = <<>>
  /\ pausedIndex = 0
  /\ currentCharIndex = 0
  /\ pausedByEdit = FALSE
  /\ programmaticSelection = FALSE
  /\ readerCall = "none"
  /\ texte \in (UNION { [1..k -> ChunkAlphabet] : k \in 0..MaxTextLen }) \cup {ScenarioText}
  /\ indexMap = <<>>
  /\ analysis = NoAnalysis
  /\ history = NoHistory

\* lancerLecture(texte)
lancerLecture ==
  /\ step.kind = "init"
  /\ indexMap' = normalizeWithMap(texte).indexMap
  /\ IF normalizeWithMap(texte).normalized = <<>>
     THEN readerReturns("normalize")
     ELSE speakCall(normalizeWithMap(texte).normalized, 90, NoStart)
  /\ UNCHANGED <<editorText, pausedIndex, currentCharIndex, pausedByEdit,
                 programmaticSelection, readerCall, texte, analysis, history>>

NextNorm == lancerLecture

SpecNorm == InitNorm /\ [][NextNorm]_vars

\* C36: after lancerLecture the text handed to speak() is the chunker's normalization
\* of the input, indexMap has its length and is strictly increasing, and indexMap[k]
\* is the input index of the non-space character normalized[k], or of the first
\* whitespace character of the run a space stands for
C36_NormalizedWithMap ==
  step.kind # "init"
    => /\ sourceText = Normalize(texte)
       /\ Len(indexMap) = Len(sourceText)
       /\ \A k \in 1..Len(indexMap) :
            /\ 0 <= indexMap[k] /\ indexMap[k] < Len(texte)
            /\ k > 1 => indexMap[k - 1] < indexMap[k]
            /\ IF sourceText[k] = " "
               THEN /\ texte[indexMap[k] + 1] \in WhiteSpace
                    /\ indexMap[k] > 0
                    /\ texte[indexMap[k]] \notin WhiteSpace
                    /\ indexMap[k] = indexMap[k - 1] + 1
               ELSE /\ texte[indexMap[k] + 1] = sourceText[k]
                    /\ \A j \in (IF k = 1 THEN 0 ELSE indexMap[k - 1] + 1)..(indexMap[k] - 1) :
                         texte[j + 1] \in WhiteSpace

\* a text with a run of whitespace inside and whitespace at both ends
C36_Witness ==
  /\ step.kind = "speak"
  /\ texte = <<" ", "a", "\n", " ">>
  /\ sourceText = <<"a">>
  /\ indexMap = <<1>>

(***************************************************************************)
(* readingAnalysis: the requests to the text-analysis service              *)
(***************************************************************************)

InitAi ==
  /\ sourceText = <<>>
  /\ synthEager \in BOOLEAN
  /\ InitRest
  /\ editorText = <<>>
  /\ pausedIndex = 0
  /\ currentCharIndex = 0
  /\ pausedByEdit = FALSE
  /\ programmaticSelection = FALSE
  /\ readerCall = "none"
  /\ texte = <<>>
  /\ indexMap = <<>>
  /\ analysis \in { [NoAnalysis EXCEPT !.configured = c] : c \in BOOLEAN }
  /\ history = NoHistory

\* a step of readingAnalysis: nothing of the hook or of the readers is touched
analysisStep ==
  /\ readerReturns("analysis")
  /\ UNCHANGED <<editorText, pausedIndex, currentCharIndex, pausedByEdit,
                 programmaticSelection, readerCall, texte, indexMap, history>>

\* the promise of fn settles with result, the service having answered response
Settled(fn, response, result) ==
  [analysis EXCEPT !.fn = fn, !.phase = "settled", !.response = response,
                   !.result = result]

\* fn awaits requestGeminiSuggestion(prompt)
Requested(fn) ==
  [analysis EXCEPT !.fn = fn, !.phase = "pending", !.response = "none", !.result = "none"]

analyzeSelectedTextWithGemini(selectedText) ==
  /\ analysis.phase # "pending"
  /\ analysis' = IF IsBlank(selectedText) \/ ~analysis.configured
                  THEN Settled("analyzeSelectedTextWithGemini", "none", "fallback")
                  ELSE Requested("analyzeSelectedTextWithGemini")
  /\ analysisStep

suggestCorrectionForIssue ==
  /\ analysis.phase # "pending"
  /\ analysis' = IF ~analysis.configured
                  THEN Settled("suggestCorrectionForIssue", "none", "fallback")
                  ELSE Requested("suggestCorrectionForIssue")
  /\ analysisStep

\* the outcome of requestGeminiSuggestion: fetch rejects, !response.ok throws,
\* response.json() rejects, parseSuggestion returns the pair or the fallback
RequestOutcome(response) ==
  IF response \in {"network-error", "http-error", "invalid-body"} THEN "raised"
  ELSE IF response = "suggestion" THEN "suggestion"
  ELSE "fallback"

\* the service answers the request in flight: fetch rejects, a status that is not
\* OK, a body that is not JSON, a text with diagnosis and correction, any other text
requestGeminiSuggestion(response) ==
  /\ analysis.phase = "pending"
  /\ analysis' = Settled(analysis.fn, response, RequestOutcome(response))
  /\ analysisStep

NextAi ==
  \/ \E text \in SpeakTexts, rate \in Rates : speak(text, rate)
  \/ stop
  \/ pause
  \/ syncState
  \/ onstart
  \/ onpause
  \/ onerror
  \/ synthBegin
  \/ \E selectedText \in { <<>>, <<" ">>, <<"a", "b">> } :
        analyzeSelectedTextWithGemini(selectedText)
  \/ suggestCorrectionForIssue
  \/ \E response \in {"network-error", "http-error", "invalid-body", "suggestion",
                        "other-text"} :
        requestGeminiSuggestion(response)

SpecAi == InitAi /\ [][NextAi]_vars

\* C37: a request that failed (network error, status not OK) settles the promise
\* of analyzeSelectedTextWithGemini or suggestCorrectionForIssue with the local
\* fallback value, and a step of the request leaves the playback state as it is
C37_FailureGivesFallback ==
  /\ [](analysis.response \in {"network-error", "http-error"}
          => analysis.result = "fallback")
  /\ [][analysis' # analysis
          => UNCHANGED <<queue, isSpeaking, isPaused, lastCharIndex, activeUtterance,
                         synthQueue, synthPaused, events>>]_vars

(***************************************************************************)
(* readingHistory: saveHistoryEntry and deleteHistoryEntry                 *)
(***************************************************************************)

MAX_ENTRIES == 12

MAX_TEXT_LENGTH == 180000

\* clipped.slice(0, 2000): the characters of the text that are hashed
HashedPrefix == 2000

\* the hash is kept to its low 16 bits: they depend on the low 16 bits of every
\* intermediate value only
HashModulus == 65536

\* let hash = 0x811C9DC5, the low 16 bits: 0x9DC5
HashStart == 40389

\* text.charCodeAt(i)
CharCode(c) ==
  CASE c = "a" -> 97
    [] c = "b" -> 98
    [] c = " " -> 32
    [] c = "\n" -> 10
    [] OTHER -> 46

\* a ^ b on the low n bits
RECURSIVE Xor(_, _, _)
Xor(a, b, n) ==
  IF n = 0 THEN 0
  ELSE (((a % 2) + (b % 2)) % 2) + 2 * Xor(a \div 2, b \div 2, n - 1)

\* hash << k
Shl(hash, k) == (hash * ((2 ^ k) % HashModulus)) % HashModulus

\* the loop of hashText from the 0-based index i on
RECURSIVE HashLoop(_, _, _)
HashLoop(text, i, hash) ==
  IF ~(i < Len(text)) THEN hash
  ELSE LET x == Xor(hash, CharCode(text[i + 1]), 16)
       IN HashLoop(text, i + 1,
                   (x + Shl(x, 1) + Shl(x, 4) + Shl(x, 7) + Shl(x, 8) + Shl(x, 24))
                     % HashModulus)

\* Number.prototype.toString(16)
RECURSIVE Hex(_)
Hex(n) ==
  LET digits == <<"0", "1", "2", "3", "4", "5", "6", "7", "8", "9", "a", "b", "c", "d", "e", "f">>
  IN IF n < 16 THEN digits[n + 1] ELSE Hex(n \div 16) \o digits[(n % 16) + 1]

\* hashText(text), the low 16 bits
hashText(text) == Hex(HashLoop(text, 0, HashStart))

\* the id saveHistoryEntry gives a document
EntryId(readerType, documentName, clipped) ==
  readerType \o "-" \o documentName \o "-" \o hashText(Slice(clipped, 0, HashedPrefix))

\* entries.filter((entry) => entry.id !== id)
RECURSIVE WithoutId(_, _)
WithoutId(entries, id) ==
  IF entries = <<>> THEN <<>>
  ELSE IF Head(entries).id # id THEN <<Head(entries)>> \o WithoutId(Tail(entries), id)
  ELSE WithoutId(Tail(entries), id)

\* saveHistoryEntry that does not remove the stored entry of the same id
SavedMut(entries, readerType, documentName, text, currentIndex, at) ==
  LET clipped == Slice(text, 0, MAX_TEXT_LENGTH)
      id == EntryId(readerType, documentName, clipped)
      nextEntry == [id |-> id, readerType |-> readerType, documentName |-> documentName,
                    text |-> clipped,
                    currentIndex |-> Max(0, Min(currentIndex, Len(clipped) - 1)),
                    updatedAt |-> at]
  IN IF IsBlank(text) THEN entries
     ELSE Slice(<<nextEntry>> \o entries, 0, MAX_ENTRIES)

\* the entries saveHistoryEntry stores, called at the time at
Saved(entries, readerType, documentName, text, currentIndex, at) ==
  LET clipped == Slice(text, 0, MAX_TEXT_LENGTH)
      id == EntryId(readerType, documentName, clipped)
      nextEntry == [id |-> id, readerType |-> readerType, documentName |-> documentName,
                    text |-> clipped,
                    currentIndex |-> Max(0, Min(currentIndex, Len(clipped) - 1)),
                    updatedAt |-> at]
  IN IF IsBlank(text) THEN entries
     ELSE Slice(<<nextEntry>> \o WithoutId(entries, id), 0, MAX_ENTRIES)

\* calls of saveHistoryEntry and deleteHistoryEntry in one behaviour
MaxHistCalls == 2

\* the entries stored after the first n documents were saved, one after the other
RECURSIVE Stored(_)
Stored(n) ==
  IF n = 0 THEN <<>>
  ELSE Saved(Stored(n - 1), IF n % 2 = 0 THEN "pdf" ELSE "word",
             <<"d1", "d2", "d3", "d4", "d5", "d6", "d7">>[(n + 1) \div 2], <<"a">>, 0, n)

InitHistory ==
  /\ sourceText = <<>>
  /\ synthEager = FALSE
  /\ InitRest
  /\ editorText = <<>>
  /\ pausedIndex = 0
  /\ currentCharIndex = 0
  /\ pausedByEdit = FALSE
  /\ programmaticSelection = FALSE
  /\ readerCall = "none"
  /\ texte = <<>>
  /\ indexMap = <<>>
  /\ analysis = NoAnalysis
  /\ history \in { [NoHistory EXCEPT !.entries = Stored(n), !.clock = n] :
                      n \in 0..MAX_ENTRIES }

\* a call of readingHistory: nothing else is touched
historyStep ==
  /\ history.calls < MaxHistCalls
  /\ readerReturns("history")
  /\ UNCHANGED <<editorText, pausedIndex, currentCharIndex, pausedByEdit,
                 programmaticSelection, readerCall, texte, indexMap, analysis>>

saveHistoryEntry(readerType, documentName, text, currentIndex) ==
  /\ historyStep
  /\ \E at \in {history.clock, history.clock + 1} : history' =
       [entries |-> Saved(history.entries, readerType, documentName, text, currentIndex, at),
        clock |-> at,
        calls |-> history.calls + 1,
        last |-> [op |-> "save",
                  id |-> EntryId(readerType, documentName, Slice(text, 0, MAX_TEXT_LENGTH)),
                  blank |-> IsBlank(text),
                  stored |-> EntryId(readerType, documentName,
                                     Slice(text, 0, MAX_TEXT_LENGTH))
                               \in { history.entries[i].id : i \in 1..Len(history.entries) }]]

deleteHistoryEntry(id) ==
  /\ historyStep
  /\ history' =
       [entries |-> WithoutId(history.entries, id),
        clock |-> history.clock,
        calls |-> history.calls + 1,
        last |-> [op |-> "delete", id |-> id, blank |-> FALSE,
                  stored |-> id \in { history.entries[i].id :
                                       i \in 1..Len(history.entries) }]]

NextHistory ==
  \/ \E documentName \in {"d1", "d7"}, text \in { <<" ">>, <<"a">>, <<"a", "b">> },
        currentIndex \in {-1, 5} :
        saveHistoryEntry("word", documentName, text, currentIndex)
  \/ \E id \in {"none"} \cup { history.entries[i].id :
                                i \in {1, Len(history.entries)} \cap (1..Len(history.entries)) } :
        deleteHistoryEntry(id)

SpecHistory == InitHistory /\ [][NextHistory]_vars

\* C40: the stored history has at most MAX_ENTRIES entries, with pairwise distinct
\* ids, the later saved before the earlier, every currentIndex within the entry's text;
\* a save of blank text changes nothing, a save of a stored id keeps the number of
\* entries and a save of a new id adds one up to MAX_ENTRIES, the saved entry first
C40_HistoryBounded ==
  /\ [](LET entries == history.entries
        IN /\ Len(entries) <= MAX_ENTRIES
           /\ \A i, j \in 1..Len(entries) :
                i < j => /\ entries[i].id # entries[j].id
                         /\ entries[i].updatedAt >= entries[j].updatedAt
           /\ \A i \in 1..Len(entries) :
                /\ 0 <= entries[i].currentIndex
                /\ entries[i].currentIndex <= Len(entries[i].text) - 1)
  /\ [][(history'.last.op = "save" /\ history'.calls # history.calls)
          => IF history'.last.blank THEN history'.entries = history.entries
             ELSE /\ history'.entries[1].id = history'.last.id
                  /\ history'.entries[1].updatedAt = history'.clock
                  /\ Len(history'.entries)
                       = IF history'.last.stored THEN Len(history.entries)
                         ELSE Min(Len(history.entries) + 1, MAX_ENTRIES)]_vars

\* a new document is saved into a full history
C40_Witness ==
  /\ history.last.op = "save"
  /\ ~history.last.stored
  /\ ~history.last.blank
  /\ Len(history.entries) = MAX_ENTRIES
  /\ history.entries[MAX_ENTRIES].updatedAt = 2

====
